---- MODULE Spec2Model ----
(***************************************************************************)
(* CocoaPods reconciliation of cordova-ios: Api.addPlugin / removePlugin   *)
(* and Api.addPodSpecs / removePodSpecs (lib/Api.js), which merge a        *)
(* plugin's <podspec> blocks into the ledger pods.json (PodsJson) and the  *)
(* manifest Podfile (Podfile) and run `pod install` when the Podfile       *)
(* changed.                                                                *)
(*                                                                         *)
(* JavaScript objects are functions whose DOMAIN is the set of their own   *)
(* properties; strings that the code inspects character by character       *)
(* (pod spec values) are sequences of one-character strings.               *)
(***************************************************************************)
EXTENDS Integers, Sequences, FiniteSets, TLC

\* Number of addPlugin/removePlugin calls a behaviour starts.
MaxCalls == 3
\* calls of a round trip: two installs and two uninstalls
MaxRoundTripCalls == 4
\* calls a caller makes without awaiting the earlier ones
MaxConcurrentCalls == 2
\* calls that write pods.json and read it back
MaxLedgerCalls == 3

\* Number of calls in a behaviour with a block that lacks a section.
MaxSectionCalls == 3

\* Number of promises that can be in flight at once.
NumSlots == 2

Slots == 1..NumSlots

----------------------------------------------------------------------------
(* Values *)

\* The JavaScript value undefined, where a pod spec string is expected.
Undefined == <<"undefined">>

V40 == <<"4">>
V30 == <<"3">>
RefV == <<"$", "V">>

NameV == <<"V">>
PACKAGE_NAME == <<"PACKAGE_NAME">>

\* util: f with x mapped to v (x may be new)
Put(f, x, v) == [y \in (DOMAIN f) \cup {x} |-> IF y = x THEN v ELSE f[y]]

\* util: f without x
Del(f, x) == [y \in (DOMAIN f) \ {x} |-> f[y]]

EmptyObj == [y \in {} |-> 0]

----------------------------------------------------------------------------
(* lib/Api.js, module level helpers *)

\* JavaScript values of mixed type are [t |-> typeof value, v |-> value].
JsUndefined == [t |-> "undefined", v |-> 0]
JsString(x) == [t |-> "string", v |-> x]
JsBoolean(x) == [t |-> "boolean", v |-> x]
JsNumber(x) == [t |-> "number", v |-> x]

\* String.prototype.toLowerCase on the spellings the plugins use
toLowerCase(str) ==
    IF str \in {"true", "TRUE", "True"} THEN "true"
    ELSE IF str \in {"false", "FALSE"} THEN "false"
    ELSE str

\* variant: the string is compared without toLowerCase
_isTrueCaseSensitive(value) ==
    \/ (value.t = "boolean" /\ value.v = TRUE)
    \/ (value.t = "string" /\ value.v = "true")
    \/ (value.t = "number" /\ value.v = 1)

\* check the value is true or 'true' or 'TRUE' or 1
_isTrue(value) ==
    \/ (value.t = "boolean" /\ value.v = TRUE)
    \/ (value.t = "string" /\ toLowerCase(value.v) = "true")
    \/ (value.t = "number" /\ value.v = 1)

\* String.prototype.includes for a one-character needle
Includes(s, ch) == \E i \in 1..Len(s) : s[i] = ch

\* String.prototype.replace(ch, ''): only the first occurrence is removed
ReplaceFirst(s, ch) ==
    IF ~Includes(s, ch) THEN s
    ELSE LET i == CHOOSE j \in 1..Len(s) :
                     s[j] = ch /\ \A k \in 1..(j - 1) : s[k] # ch
         IN  SubSeq(s, 1, i - 1) \o SubSeq(s, i + 1, Len(s))

\* options.cli_variables can be read: options is an object that has it
HasCliVariables(options) ==
    "cli_variables" \in DOMAIN options

\* getVariableSpec: [throws, value].  A TypeError is thrown when
\* options or options.cli_variables is undefined.
getVariableSpec(spec, options) ==
    IF Includes(spec, "$")
    THEN IF HasCliVariables(options)
         THEN LET n == ReplaceFirst(spec, "$")
              IN  [throws |-> FALSE,
                   value  |-> IF n \in DOMAIN options.cli_variables
                              THEN options.cli_variables[n]
                              ELSE Undefined]
         ELSE [throws |-> TRUE, value |-> Undefined]
    ELSE [throws |-> FALSE, value |-> spec]

podSpecFields == {"spec", "tag", "git", "commit", "branch"}

\* pod[e] is truthy (a non-empty string)
Truthy(v) == v # <<>> /\ v # Undefined

\* variant: the values are looked up but not assigned to the fields
replacePodSpecVariablesNotAssigned(pod, options) ==
    LET fs == {e \in podSpecFields \cap DOMAIN pod : Truthy(pod[e])}
    IN  [throws |-> \E e \in fs : getVariableSpec(pod[e], options).throws,
         pod    |-> pod]

\* replacePodSpecVariables: [throws, pod]
replacePodSpecVariables(pod, options) ==
    LET fs == {e \in podSpecFields \cap DOMAIN pod : Truthy(pod[e])}
    IN  [throws |-> \E e \in fs : getVariableSpec(pod[e], options).throws,
         pod    |-> [e \in DOMAIN pod |->
                        IF e \in fs
                        THEN getVariableSpec(pod[e], options).value
                        ELSE pod[e]]]

----------------------------------------------------------------------------
(* PodsJson (pods.json): the ledger *)

Kinds == {"declarations", "sources", "libraries"}

EmptyPodsJson == [k \in Kinds |-> EmptyObj]

\* getDeclaration / getSource / getLibrary: is there an entry
PodsJsonHas(contents, kind, name) == name \in DOMAIN contents[kind]

PodsJsonGet(contents, kind, name) == contents[kind][name]

\* setJsonDeclaration / setJsonSource / setJsonLibrary
PodsJsonSet(contents, kind, name, json) ==
    [contents EXCEPT ![kind] = Put(contents[kind], name, json)]

\* incrementDeclaration / incrementSource / incrementLibrary
PodsJsonIncrement(contents, kind, name) ==
    IF PodsJsonHas(contents, kind, name)
    THEN [contents EXCEPT ![kind][name]["count"] = @ + 1]
    ELSE contents

\* The count the entry object carries once decrement has run on it.
DecrementedCount(entry) ==
    IF entry["count"] - 1 < 0 THEN 0 ELSE entry["count"] - 1

\* decrementDeclaration / decrementSource / decrementLibrary: the count
\* drops by one, never below 0; an entry that reaches 0 leaves the ledger.
PodsJsonDecrement(contents, kind, name) ==
    IF PodsJsonHas(contents, kind, name)
    THEN IF DecrementedCount(contents[kind][name]) = 0
         THEN [contents EXCEPT ![kind] = Del(contents[kind], name)]
         ELSE [contents EXCEPT ![kind][name]["count"] =
                                   DecrementedCount(contents[kind][name])]
    ELSE contents

\* variant: only the libraries are serialized
JsonStringifyLibrariesOnly(contents) ==
    [kind \in Kinds |->
        IF kind # "libraries" THEN EmptyObj
        ELSE [name \in DOMAIN contents[kind] |->
                 [f \in {g \in DOMAIN contents[kind][name] :
                            g \in podSpecFields
                               => contents[kind][name][g] # Undefined}
                     |-> contents[kind][name][f]]]]

\* write: JSON.stringify of the contents; the text is kept as the object it
\* stands for.  A property whose value is undefined is left out of the text.
JsonStringify(contents) ==
    [kind \in Kinds |->
        [name \in DOMAIN contents[kind] |->
            [f \in {g \in DOMAIN contents[kind][name] :
                       g \in podSpecFields
                          => contents[kind][name][g] # Undefined}
                |-> contents[kind][name][f]]]]

\* the constructor: JSON.parse of the text of pods.json
JsonParse(text) == text

----------------------------------------------------------------------------
(* Podfile: the manifest *)

EmptyPodfile == [declarations |-> {}, sources |-> {}, pods |-> EmptyObj]

\* Podfile.proofDeclaration: the canonical spelling of a declaration
proofDeclaration(key) ==
    IF key = "use_frameworks! " THEN "use_frameworks!" ELSE key

PodfileAddDeclaration(pf, declaration) ==
    [pf EXCEPT !.declarations = @ \cup {declaration}]

PodfileRemoveDeclaration(pf, declaration) ==
    [pf EXCEPT !.declarations = @ \ {declaration}]

PodfileAddSource(pf, src) ==
    [pf EXCEPT !.sources = @ \cup {src}]

PodfileRemoveSource(pf, src) ==
    [pf EXCEPT !.sources = @ \ {src}]

\* the version pin of a library payload, as the Podfile line carries it
PinOf(podJson) == [e \in podSpecFields \cap DOMAIN podJson |-> podJson[e]]

\* addSpec refuses a library without a name
PodfileAddSpecThrows(podJson) == "name" \notin DOMAIN podJson

PodfileAddSpec(pf, name, podJson) ==
    [pf EXCEPT !.pods = Put(@, name, PinOf(podJson))]

PodfileRemoveSpec(pf, name) ==
    [pf EXCEPT !.pods = Del(@, name)]

\* variant: only the pods are compared
PodfileIsDirtyPodsOnly(pf, loaded) == pf.pods # loaded.pods

\* isDirty: the in-memory content differs from the content that was loaded
PodfileIsDirty(pf, loaded) == pf # loaded

----------------------------------------------------------------------------
(* The plugins and options the calls are made with *)

Block(d, s, l) == [declarations |-> d, sources |-> s, libraries |-> l]

\* A: a declaration (and one that is switched off), a source, a library
PluginA ==
    [id |-> "A", isNull |-> FALSE, isSPM |-> FALSE,
     podSpecs |-> << Block(<< <<"use_frameworks!", "true">>,
                              <<"inhibit_all_warnings!", "false">> >>,
                           << <<"s1", "u1">> >>,
                           << <<"AFN", [name |-> "AFNetworking", spec |-> V40]>> >>) >>]

\* B: the library of A with the same payload; the source URL of A under
\* two keys; the declaration of A in another spelling
PluginB ==
    [id |-> "B", isNull |-> FALSE, isSPM |-> FALSE,
     podSpecs |-> << Block(<< <<"use_frameworks! ", "true">> >>,
                           << <<"s1", "u1">>, <<"s2", "u1">> >>,
                           << <<"AFN", [name |-> "AFNetworking", spec |-> V40]>> >>) >>]

\* C: the library key of A with another version pin
PluginC ==
    [id |-> "C", isNull |-> FALSE, isSPM |-> FALSE,
     podSpecs |-> << Block(<<>>, <<>>,
                           << <<"AFN", [name |-> "AFNetworking", spec |-> V30]>> >>) >>]

\* D: a Swift package plugin; three libraries are excluded from Swift
\* packages, each with another spelling of the flag; the last library is not
\* excluded, has a placeholder for a name and takes its version pin from a
\* variable
PluginD ==
    [id |-> "D", isNull |-> FALSE, isSPM |-> TRUE,
     podSpecs |-> << Block(<<>>, <<>>,
                           << <<"G", [name |-> "GoogleMaps", spec |-> V30,
                                      nospm |-> JsString("TRUE")]>>,
                              <<"G2", [name |-> "GoogleMaps", spec |-> V30,
                                       nospm |-> JsBoolean(TRUE)]>>,
                              <<"G3", [name |-> "GoogleMaps", spec |-> V30,
                                       nospm |-> JsNumber(1)]>>,
                              <<"H", [name |-> "$LIB", spec |-> RefV,
                                      nospm |-> JsString("false")]>> >>) >>]

\* E: no <podspec>
PluginE ==
    [id |-> "E", isNull |-> FALSE, isSPM |-> FALSE, podSpecs |-> <<>>]

\* F: a library without a name, under the key of the library of A, after a
\* source
PluginF ==
    [id |-> "F", isNull |-> FALSE, isSPM |-> FALSE,
     podSpecs |-> << Block(<<>>, << <<"s3", "u3">> >>,
                           << <<"AFN", [spec |-> V40]>> >>) >>]

\* M: two <podspec> blocks; the first has a source and a library, the second
\* a declaration
PluginM ==
    [id |-> "M", isNull |-> FALSE, isSPM |-> FALSE,
     podSpecs |-> << Block(<<>>, << <<"s1", "u1">> >>,
                           << <<"AFN", [name |-> "AFNetworking", spec |-> V40]>> >>),
                     Block(<< <<"use_frameworks!", "true">> >>, <<>>, <<>>) >>]

\* R: nothing but the library of A, B and C
PluginR ==
    [id |-> "R", isNull |-> FALSE, isSPM |-> FALSE,
     podSpecs |-> << Block(<<>>, <<>>,
                           << <<"AFN", [name |-> "AFNetworking", spec |-> V40]>> >>) >>]

\* S: a <podspec> without <pods> attributes: the block has no declarations
\* section
PluginS ==
    [id |-> "S", isNull |-> FALSE, isSPM |-> FALSE,
     podSpecs |-> << [sources |-> << <<"s1", "u1">> >>,
                      libraries |->
                          << <<"AFN", [name |-> "AFNetworking",
                                       spec |-> V40]>> >>] >>]

\* addPlugin(null) / removePlugin(null)
NullPlugin ==
    [id |-> "null", isNull |-> TRUE, isSPM |-> FALSE, podSpecs |-> <<>>]

Plugins ==
    {PluginA, PluginB, PluginC, PluginD, PluginE, PluginF, PluginM, NullPlugin}

NameLIB == <<"L", "I", "B">>

Vars == [n \in {NameV, NameLIB} |-> IF n = NameV THEN V40 ELSE "Lib"]

\* options as the documentation of addPlugin describes them
OptVariables == [variables |-> Vars]

\* options that also carry cli_variables
OptCli == [variables |-> Vars, cli_variables |-> Vars]

\* removePlugin called without options
OptUndefined == EmptyObj

\* options whose cli_variables lack the variable V
OptCliNoV == [variables |-> Vars, cli_variables |-> EmptyObj]

Request(op, plugin, options) ==
    [op |-> op, plugin |-> plugin, options |-> options]

\* the calls a behaviour can make
Requests ==
    {Request(op, p, OptVariables) :
        op \in {"add", "remove"}, p \in Plugins \ {PluginD}}
    \cup {Request("add", PluginD, o) : o \in {OptVariables, OptCli}}
    \cup {Request("remove", PluginD, o) : o \in {OptUndefined, OptCli}}

\* the calls of a round trip: plugins that bring the library AFN and
\* nothing else
RoundTripRequests ==
    {Request(op, p, OptVariables) :
        op \in {"add", "remove"}, p \in {PluginC, PluginR}}

\* the calls that write pods.json and read it back, among them an install
\* that stores a version pin that is undefined
LedgerRequests ==
    {Request(op, PluginA, OptVariables) : op \in {"add", "remove"}}
    \cup {Request("add", PluginD, o) : o \in {OptCli, OptCliNoV}}
    \cup {Request("remove", PluginD, OptCli)}

\* the calls with a plugin of which a block lacks a section
SectionRequests ==
    {Request(op, p, OptVariables) :
        op \in {"add", "remove"}, p \in {PluginA, PluginS}}

\* the calls a caller makes without awaiting the earlier ones
ConcurrentRequests ==
    {Request(op, p, OptVariables) :
        op \in {"add", "remove"}, p \in {PluginA, PluginC}}

----------------------------------------------------------------------------
(* lib/versions.js: strings are sequences of one-character strings, the    *)
(* output of a command is the sequence of its lines                        *)

Digits == {"0", "1", "2", "3", "4", "5", "6", "7", "8", "9"}

IsDigit(ch) == ch \in Digits

DigitValue(ch) ==
    CASE ch = "0" -> 0 [] ch = "1" -> 1 [] ch = "2" -> 2 [] ch = "3" -> 3
      [] ch = "4" -> 4 [] ch = "5" -> 5 [] ch = "6" -> 6 [] ch = "7" -> 7
      [] ch = "8" -> 8 [] ch = "9" -> 9

\* the code unit of a character, for the characters the inputs are made of
CharCode(ch) ==
    CASE ch = " " -> 32 [] ch = "-" -> 45 [] ch = "." -> 46
      [] IsDigit(ch) -> 48 + DigitValue(ch)
      [] ch = "O" -> 79 [] ch = "S" -> 83 [] ch = "X" -> 88
      [] ch = "a" -> 97 [] ch = "b" -> 98 [] ch = "c" -> 99
      [] ch = "d" -> 100 [] ch = "e" -> 101 [] ch = "i" -> 105
      [] ch = "m" -> 109 [] ch = "o" -> 111 [] ch = "r" -> 114
      [] ch = "s" -> 115 [] ch = "t" -> 116 [] ch = "v" -> 118
      [] OTHER -> 63

\* the code unit of a digit or an ASCII letter
IsAlnumCode(code) ==
    \/ (48 <= code /\ code <= 57)
    \/ (65 <= code /\ code <= 90)
    \/ (97 <= code /\ code <= 122)

IsAlnumOrHyphen(ch) == ch = "-" \/ IsAlnumCode(CharCode(ch))

AllDigits(s) == \A i \in 1..Len(s) : IsDigit(s[i])

RECURSIVE NumberOf(_)
\* the number a run of digits stands for
NumberOf(s) ==
    IF s = <<>> THEN 0
    ELSE 10 * NumberOf(SubSeq(s, 1, Len(s) - 1)) + DigitValue(s[Len(s)])

\* the last index of the run of digits that starts at i
RunEnd(s, i) ==
    CHOOSE j \in i..Len(s) :
        /\ \A k \in i..j : IsDigit(s[k])
        /\ (j = Len(s) \/ ~IsDigit(s[j + 1]))

\* the least and the greatest of a non-empty set of numbers
Least(S) == CHOOSE i \in S : \A j \in S : i <= j

Greatest(S) == CHOOSE i \in S : \A j \in S : j <= i

\* s.indexOf(ch), counted from 1; Len(s) + 1 when ch is not in s
IndexOf(s, ch) == Least({i \in 1..(Len(s) + 1) : i > Len(s) \/ s[i] = ch})

RECURSIVE Split(_, _)
\* s.split(ch)
Split(s, ch) ==
    IF ~Includes(s, ch) THEN <<s>>
    ELSE <<SubSeq(s, 1, IndexOf(s, ch) - 1)>>
         \o Split(SubSeq(s, IndexOf(s, ch) + 1, Len(s)), ch)

\* the places of s that are not blank
Inked(s) == {i \in 1..Len(s) : s[i] # " "}

\* String.prototype.trim
Trim(s) ==
    IF Inked(s) = {} THEN <<>>
    ELSE SubSeq(s, Least(Inked(s)), Greatest(Inked(s)))

\* semver: a numeric identifier, 0|[1-9]\d*
IsNumericId(s) ==
    /\ s # <<>>
    /\ AllDigits(s)
    /\ (Len(s) > 1 => s[1] # "0")

\* semver: a pre-release identifier, numeric or \d*[a-zA-Z-][a-zA-Z0-9-]*
IsPrereleaseId(s) ==
    /\ s # <<>>
    /\ \A i \in 1..Len(s) : IsAlnumOrHyphen(s[i])
    /\ (AllDigits(s) => IsNumericId(s))

NoSemVer == [valid |-> FALSE]

SemVer(major, minor, patch, prerelease) ==
    [valid |-> TRUE, major |-> major, minor |-> minor, patch |-> patch,
     prerelease |-> prerelease]

\* a leading v is skipped
SkipV(t) == IF t # <<>> /\ t[1] = "v" THEN Tail(t) ELSE t

\* the identifiers before the first hyphen
MainIds(u) == Split(SubSeq(u, 1, IndexOf(u, "-") - 1), ".")

\* the identifiers after the first hyphen
PrereleaseIds(u) ==
    IF ~Includes(u, "-") THEN <<>>
    ELSE Split(SubSeq(u, IndexOf(u, "-") + 1, Len(u)), ".")

SemVerOf(main, pre) ==
    IF /\ Len(main) = 3
       /\ \A i \in 1..Len(main) : IsNumericId(main[i])
       /\ \A i \in 1..Len(pre) : IsPrereleaseId(pre[i])
    THEN SemVer(NumberOf(main[1]), NumberOf(main[2]), NumberOf(main[3]), pre)
    ELSE NoSemVer

\* semver.parse: v?MAJOR.MINOR.PATCH(-PRERELEASE)? after trim, null when
\* the string is not of that form (build metadata is not among the inputs)
SemverParse(v) ==
    SemVerOf(MainIds(SkipV(Trim(v))), PrereleaseIds(SkipV(Trim(v))))

\* a dot and a digit follow the place b
DotDigitAfter(v, b) ==
    b + 2 <= Len(v) /\ v[b + 1] = "." /\ IsDigit(v[b + 2])

\* the run of digits after the dot that follows b, "0" when there is none
RunAfter(v, b) ==
    IF DotDigitAfter(v, b) THEN SubSeq(v, b + 2, RunEnd(v, b + 2)) ELSE <<"0">>

\* the major run ends at b1: the minor run and, after it, the patch run
CoerceAfterMajor(v, major, b1) ==
    SemverParse(major \o <<".">> \o RunAfter(v, b1) \o <<".">>
                \o (IF DotDigitAfter(v, b1)
                    THEN RunAfter(v, RunEnd(v, b1 + 2))
                    ELSE <<"0">>))

\* the major run starts at a1
CoerceFrom(v, a1) ==
    CoerceAfterMajor(v, SubSeq(v, a1, RunEnd(v, a1)), RunEnd(v, a1))

\* semver.coerce: the first run of digits, with up to two more runs joined
\* to it by dots, is read as MAJOR.MINOR.PATCH and parsed; what follows is
\* dropped.  null when the string has no digit.
SemverCoerce(v) ==
    IF \A i \in 1..Len(v) : ~IsDigit(v[i]) THEN NoSemVer
    ELSE CoerceFrom(v, Least({i \in 1..Len(v) : IsDigit(v[i])}))

Sign(n) == IF n < 0 THEN -1 ELSE IF n > 0 THEN 1 ELSE 0

\* the first place where s differs from t, Len(s) + 1 when s is a prefix
FirstDifference(s, t) ==
    Least({i \in 1..(Len(s) + 1) : i > Len(s) \/ i > Len(t) \/ s[i] # t[i]})

\* two strings differ first at i
StringCompareAt(s, t, i) ==
    IF i > Len(s) THEN Sign(Len(s) - Len(t))
    ELSE IF i > Len(t) THEN 1
    ELSE Sign(CharCode(s[i]) - CharCode(t[i]))

\* comparison of two strings by code units
StringCompare(s, t) == StringCompareAt(s, t, FirstDifference(s, t))

\* semver compareIdentifiers: numbers by value and below every other
\* identifier, the others as strings
CompareIdentifiers(a, b) ==
    IF AllDigits(a) /\ AllDigits(b) THEN Sign(NumberOf(a) - NumberOf(b))
    ELSE IF AllDigits(a) THEN -1
    ELSE IF AllDigits(b) THEN 1
    ELSE StringCompare(a, b)

\* the first place where the identifiers of p and q differ
FirstDifferentId(p, q) ==
    Least({i \in 1..(Len(p) + 1) :
              i > Len(p) \/ i > Len(q) \/ CompareIdentifiers(p[i], q[i]) # 0})

ComparePreAt(p, q, i) ==
    IF i > Len(p) THEN Sign(Len(p) - Len(q))
    ELSE IF i > Len(q) THEN 1
    ELSE CompareIdentifiers(p[i], q[i])

\* variant: a pre-release sorts above its release
ComparePreAboveRelease(p, q) ==
    IF p # <<>> /\ q = <<>> THEN 1
    ELSE IF p = <<>> /\ q # <<>> THEN -1
    ELSE ComparePreAt(p, q, FirstDifferentId(p, q))

\* semver comparePre
ComparePre(p, q) ==
    IF p # <<>> /\ q = <<>> THEN -1
    ELSE IF p = <<>> /\ q # <<>> THEN 1
    ELSE ComparePreAt(p, q, FirstDifferentId(p, q))

\* semver.compare
SemverCompare(x, y) ==
    IF x.major # y.major THEN Sign(x.major - y.major)
    ELSE IF x.minor # y.minor THEN Sign(x.minor - y.minor)
    ELSE IF x.patch # y.patch THEN Sign(x.patch - y.patch)
    ELSE ComparePre(x.prerelease, y.prerelease)

\* a || b for the results of semver.parse and semver.coerce
OrElse(a, b) == IF a.valid THEN a ELSE b

\* versions.js 135-139
coerceToSemverIfInvalid(v) == OrElse(SemverParse(v), SemverCoerce(v))

InvalidVersion(v) ==
    [kind |-> "thrown", type |-> "TypeError",
     message |-> "Invalid Version: ", version |-> v]

\* versions.js 137 and 141-142, for the two versions as they were mapped
ComparedAs(s1, s2, version1, version2) ==
    IF ~s1.valid THEN InvalidVersion(version1)
    ELSE IF ~s2.valid THEN InvalidVersion(version2)
    ELSE [kind |-> "returned", value |-> SemverCompare(s1, s2)]

\* versions.js 134-143: what compareVersions returns or throws
compareVersions(version1, version2) ==
    ComparedAs(coerceToSemverIfInvalid(version1),
               coerceToSemverIfInvalid(version2), version1, version2)

\* the version strings compareVersions is tried on
VersionStrings ==
    {<<"1", ".", "0", ".", "0">>,
     <<"1", ".", "1", ".", "0">>,
     <<"1", ".", "0", ".", "0", "-", "r", "c", ".", "0">>,
     <<"1", ".", "0", ".", "0", "-", "r", "c", ".", "1">>,
     <<"1", ".", "0", ".", "0", "-", "r", "c">>,
     <<"1", ".", "0", ".", "0", "-", "1">>,
     <<"v", "1", ".", "0", ".", "0">>,
     <<"1", "0", ".", "1">>,
     <<"1", "0">>,
     <<"1", "0", ".", "1", "-", "b", "e", "t", "a", ".", "1">>,
     <<"9", ".", "2">>,
     <<"i", "o", "s", " ", "9">>,
     <<"r", "a", "n", "d", "o", "m", " ", "s", "t", "r", "i", "n", "g">>,
     <<>>}

\* the name of an SDK type as the characters the regular expression is built of
SdkChars(sdkType) ==
    IF sdkType = "iOS" THEN <<"i", "O", "S">> ELSE <<"m", "a", "c", "O", "S">>

\* outputs of the spawned command, line by line
SdksOutput ==
    <<<<"i", "O", "S", " ", "S", "D", "K", "s", ":">>,
      <<" ", " ", "i", "O", "S", " ", "1", "0", ".", "1", " ", "-", "s", "d",
        "k", " ", "i", "p", "h", "o", "n", "e", "o", "s", "1", "0", ".",
        "1">>,
      <<" ", " ", "i", "O", "S", " ", "9", ".", "2", " ", "-", "s", "d", "k",
        " ", "i", "p", "h", "o", "n", "e", "o", "s", "9", ".", "2">>,
      <<>>,
      <<"m", "a", "c", "O", "S", " ", "S", "D", "K", "s", ":">>,
      <<" ", " ", "m", "a", "c", "O", "S", " ", "1", "2", ".", "0", " ", "-",
        "s", "d", "k", " ", "m", "a", "c", "o", "s", "x", "1", "2", ".",
        "0">>>>

SdksOutputNoMinor == <<<<" ", " ", "i", "O", "S", " ", "1", "7">>, <<" ",
  " ", "m", "a", "c", "O", "S", " ", "1", "5">>>>

XcodeOutput == <<<<"X", "c", "o", "d", "e", " ", "1", "6", ".", "4">>, <<"B",
  "u", "i", "l", "d", " ", "v", "e", "r", "s", "i", "o", "n", " ", "1", "6",
  "F", "6">>>>

NotAVersionOutput == <<<<"N", "o", "t", " ", "a", " ", "v", "e", "r", "s",
  "i", "o", "n">>>>

PlainVersionOutput == <<<<"1", ".", "1", "2", ".", "2">>>>

EmptyOutput == <<<<>>>>

Outputs ==
    {SdksOutput, SdksOutputNoMinor, XcodeOutput, NotAVersionOutput,
     PlainVersionOutput, EmptyOutput}

\* what child_process.spawnSync does when asked: it throws, or it returns a
\* result with an error, with a non-zero status, or with status 0
SpawnResult(throws, message, error, status, stdout, stderr) ==
    [throws |-> throws, message |-> message, error |-> error,
     status |-> status, stdout |-> stdout, stderr |-> stderr]

NoError == "none"

NoSpawnResult == SpawnResult(FALSE, "", NoError, 0, <<>>, "")

SpawnResults ==
    {SpawnResult(TRUE, "ENOENT", NoError, 0, EmptyOutput, "")}
    \cup {SpawnResult(FALSE, "", "Bad Command", 1, EmptyOutput, "")}
    \cup {SpawnResult(FALSE, "", NoError, 1, out, "Error message") :
             out \in {EmptyOutput, PlainVersionOutput}}
    \cup {SpawnResult(FALSE, "", NoError, 0, out, "") : out \in Outputs}

ErrorOf(type, message, about) ==
    [type |-> type, message |-> message, about |-> about]

Returned(value) == [threw |-> FALSE, value |-> value]

Threw(error) == [threw |-> TRUE, error |-> error]

\* versions.js 24-36
spawnSync(r) ==
    IF r.throws THEN Threw(ErrorOf("Error", r.message, ""))
    ELSE IF r.error # NoError THEN Threw(ErrorOf("Error", r.error, ""))
    ELSE IF r.status # 0 THEN Threw(ErrorOf("CordovaError", r.stderr, ""))
    ELSE Returned(r.stdout)

\* t.match(/^<sdkType> \d/) for the characters of the SDK type
StartsWithSdk(t, chars) ==
    /\ Len(t) >= Len(chars) + 2
    /\ SubSeq(t, 1, Len(chars)) = chars
    /\ t[Len(chars) + 1] = " "
    /\ IsDigit(t[Len(chars) + 2])

\* line.trim().match(regexSdk)
MatchesSdk(line, sdkType) == StartsWithSdk(Trim(line), SdkChars(sdkType))

\* /\d+\.\d+/ matches at i
VersionAt(line, i) == IsDigit(line[i]) /\ DotDigitAfter(line, RunEnd(line, i))

\* the places where /\d+\.\d+/ matches
VersionStarts(line) == {i \in 1..Len(line) : VersionAt(line, i)}

\* the match of /\d+\.\d+/ that starts at i
VersionFrom(line, i) ==
    SubSeq(line, i, RunEnd(line, RunEnd(line, i) + 2))

\* line.match(/\d+\.\d+/)[0]
FirstVersion(line) == VersionFrom(line, Least(VersionStarts(line)))

\* a version that no version before it equals and no version is below
IsSortedFirst(vs, i) ==
    /\ \A j \in 1..Len(vs) : compareVersions(vs[i], vs[j]).value <= 0
    /\ \A j \in 1..(i - 1) : compareVersions(vs[j], vs[i]).value # 0

\* versions.sort(exports.compareVersions)[0]: the first of the lowest
SortedFirst(vs) == vs[CHOOSE i \in 1..Len(vs) : IsSortedFirst(vs, i)]

\* versions.js 41-51, for the lines that name the SDK
VersionOfLines(lines, sdkType) ==
    IF \E i \in 1..Len(lines) : VersionStarts(lines[i]) = {}
    THEN Threw(ErrorOf("TypeError", "Cannot read properties of null", ""))
    ELSE IF lines = <<>>
    THEN Threw(ErrorOf("CordovaError",
                       "Could not determine version from output", sdkType))
    ELSE Returned(SortedFirst([i \in 1..Len(lines) |-> FirstVersion(lines[i])]))

\* versions.js 39-51, for what spawnSync did
VersionOfSdk(sp, sdkType) ==
    IF sp.threw THEN sp
    ELSE VersionOfLines(SelectSeq(sp.value,
                                  LAMBDA line : MatchesSdk(line, sdkType)),
                        sdkType)

\* versions.js 38-52
fetchSdkVersionByType(sdkType, r) == VersionOfSdk(spawnSync(r), sdkType)

\* the places of a line where /Xcode (.*)/ matches
XcodeStarts(line) ==
    {i \in 1..(Len(line) - 5) : SubSeq(line, i, i + 5) = <<"X", "c", "o", "d", "e", " ">>}

\* the lines where /Xcode (.*)/ matches
XcodeLines(stdout) == {i \in 1..Len(stdout) : XcodeStarts(stdout[i]) # {}}

\* the group (.*) of the first match in a line
XcodeGroup(line) == SubSeq(line, Least(XcodeStarts(line)) + 6, Len(line))

\* /Xcode (.*)/.exec(stdout)[1]
XcodeVersion(stdout) == XcodeGroup(stdout[Least(XcodeLines(stdout))])

Fulfilled(value) == [kind |-> "fulfilled", value |-> value]

Rejected(error) == [kind |-> "rejected", error |-> error]

Thrown(error) == [kind |-> "thrown", error |-> error]

\* try { return Promise.resolve(...) } catch (e) { return Promise.reject(e) }
Settle(res) == IF res.threw THEN Rejected(res.error) ELSE Fulfilled(res.value)

Spawned(cmd, args) == <<[cmd |-> cmd, args |-> args]>>

Probed(spawns, outcome) == [spawns |-> spawns, outcome |-> outcome]

\* versions.js 54-60
get_apple_ios_version(r) ==
    Probed(Spawned("xcodebuild", <<"-showsdks">>),
           Settle(fetchSdkVersionByType("iOS", r)))

\* versions.js 62-68
get_apple_osx_version(r) ==
    Probed(Spawned("xcodebuild", <<"-showsdks">>),
           Settle(fetchSdkVersionByType("macOS", r)))

\* versions.js 73-82, for what spawnSync did
XcodeVersionOf(sp) ==
    IF sp.threw THEN Rejected(sp.error)
    ELSE IF XcodeLines(sp.value) = {}
    THEN Rejected(ErrorOf("CordovaError",
                          "Could not determine version from output", "Xcode"))
    ELSE Fulfilled(XcodeVersion(sp.value))

\* versions.js 70-83
get_apple_xcode_version(r) ==
    Probed(Spawned("xcodebuild", <<"-version">>), XcodeVersionOf(spawnSync(r)))

\* versions.js 90-96
get_ios_deploy_version(r) ==
    Probed(Spawned("ios-deploy", <<"--version">>), Settle(spawnSync(r)))

\* Promise.resolve(...) without try / catch
Unsettled(res) == IF res.threw THEN Thrown(res.error) ELSE Fulfilled(res.value)

\* variant: the exception of spawnSync is not caught
get_cocoapods_versionUncaught(r) ==
    Probed(Spawned("pod", <<"--version">>), Unsettled(spawnSync(r)))

\* versions.js 103-109
get_cocoapods_version(r) ==
    Probed(Spawned("pod", <<"--version">>), Settle(spawnSync(r)))

ToolNames == {"xcodebuild", "ios-deploy", "pod", "unknown", "cocoapods"}

\* variant: 'pod' is answered by the ios-deploy probe
get_tool_versionDeploy(toolName, r) ==
    IF toolName = "xcodebuild" THEN get_apple_xcode_version(r)
    ELSE IF toolName \in {"ios-deploy", "pod"} THEN get_ios_deploy_version(r)
    ELSE Probed(<<>>, Rejected(ErrorOf("CordovaError",
                                       "is not valid tool name", toolName)))

\* versions.js 117-124
get_tool_version(toolName, r) ==
    IF toolName = "xcodebuild" THEN get_apple_xcode_version(r)
    ELSE IF toolName = "ios-deploy" THEN get_ios_deploy_version(r)
    ELSE IF toolName = "pod" THEN get_cocoapods_version(r)
    ELSE Probed(<<>>, Rejected(ErrorOf("CordovaError",
                                       "is not valid tool name", toolName)))

----------------------------------------------------------------------------
(* State *)

VARIABLES
    podsJsonDisk,   \* content of the file pods.json
    podfileDisk,    \* content of the file Podfile
    pc,             \* per promise: where the call stands
    call,           \* per promise: the request (op, plugin, options)
    podsjsonFile,   \* per promise: contents of its PodsJson object
    podfileFile,    \* per promise: content of its Podfile object
    loaded,         \* per promise: what the two objects held when constructed
    units,          \* per promise: the units forEach has still to visit
    log,            \* per promise: events emitted, files written, installer runs
    previous,       \* per promise: summary of the call that used it before
    committed,      \* per identity: ledger operations written to pods.json
    started,        \* number of calls started
    history,        \* round trip: the calls that have settled, oldest first
    versions        \* lib/versions.js: the last call and how it ended

vars == <<podsJsonDisk, podfileDisk, pc, call, podsjsonFile, podfileFile,
          loaded, units, log, previous, committed, started, history, versions>>

\* variant: the loops over the units may be suspended
SyncStagesWritesOnly == {"podsJsonWritten", "podfileWritten"}

\* stages of the code that runs without a suspension point
SyncStages == {"processing", "podsJsonWritten", "podfileWritten"}

Settled == {"idle", "fulfilled", "rejected"}

NoRequest == Request("none", NullPlugin, EmptyObj)

HasEvent(events, ev) == \E i \in 1..Len(events) : events[i].ev = ev

Event(ev, kind, key) == [ev |-> ev, kind |-> kind, key |-> key]

\* property access with undefined for a missing property
Prop(obj, f) == IF f \in DOMAIN obj THEN obj[f] ELSE Undefined

\* property access to a name (a plain string)
NameOf(obj) == IF "name" \in DOMAIN obj THEN obj["name"] ELSE "undefined"

----------------------------------------------------------------------------
(* Api.addPodSpecs / Api.removePodSpecs: one unit of the forEach loops.    *)
(* st = [podsjson, podfile, log, threw] is what the call holds in memory.  *)

\* Api.js 360-375
addDeclaration(st, key, value) ==
    IF value # "true" THEN st
    ELSE LET declaration == proofDeclaration(key)
             podJson == [declaration |-> declaration, count |-> 1]
         IN  IF PodsJsonHas(st.podsjson, "declarations", declaration)
             THEN [st EXCEPT
                     !.podsjson = PodsJsonIncrement(@, "declarations", declaration),
                     !.log = Append(@, Event("increment", "declarations", declaration))]
             ELSE [st EXCEPT
                     !.podsjson = PodsJsonSet(@, "declarations", declaration, podJson),
                     !.podfile = PodfileAddDeclaration(@, podJson.declaration),
                     !.log = Append(@, Event("set", "declarations", declaration))]

\* faulty variant of addSource: a registered key is set anew, not incremented
addSourceSetsAgain(st, key, source) ==
    LET podJson == [source |-> source, count |-> 1]
    IN  IF PodsJsonHas(st.podsjson, "sources", key)
        THEN [st EXCEPT
                !.podsjson = PodsJsonSet(@, "sources", key, podJson),
                !.log = Append(@, Event("increment", "sources", key))]
        ELSE [st EXCEPT
                !.podsjson = PodsJsonSet(@, "sources", key, podJson),
                !.podfile = PodfileAddSource(@, podJson.source),
                !.log = Append(@, Event("set", "sources", key))]

\* Api.js 380-392
addSource(st, key, source) ==
    LET podJson == [source |-> source, count |-> 1]
    IN  IF PodsJsonHas(st.podsjson, "sources", key)
        THEN [st EXCEPT
                !.podsjson = PodsJsonIncrement(@, "sources", key),
                !.log = Append(@, Event("increment", "sources", key))]
        ELSE [st EXCEPT
                !.podsjson = PodsJsonSet(@, "sources", key, podJson),
                !.podfile = PodfileAddSource(@, podJson.source),
                !.log = Append(@, Event("set", "sources", key))]

\* the library takes part: !isSPM || (isSPM && !_isTrue(podJson.nospm))
TakesPart(isSPM, podJson) ==
    \/ ~isSPM
    \/ (isSPM /\ ~_isTrue(IF "nospm" \in DOMAIN podJson
                           THEN podJson["nospm"] ELSE JsUndefined))

\* the 'warn' event of Api.js 402.  plugin, name and installed are the
\* three values the message is formatted from; requested and registered
\* record the two payloads that met.
Warning(plugin, key, podJson, val) ==
    [ev |-> "warn", kind |-> "libraries", key |-> key, plugin |-> plugin.id,
     name |-> NameOf(podJson), installed |-> Prop(val, "spec"),
     requested |-> podJson, registered |-> Del(val, "count")]

\* faulty variant of addLibrary: the payload of the last plugin replaces
\* the registered one
addLibraryLastWriterWins(st, plugin, key, library, options) ==
    IF ~TakesPart(plugin.isSPM, library) THEN st
    ELSE LET r == replacePodSpecVariables(library, options)
             podJson == Put(r.pod, "count", 1)
         IN  IF r.throws THEN [st EXCEPT !.threw = TRUE]
             ELSE IF PodsJsonHas(st.podsjson, "libraries", key)
             THEN [st EXCEPT
                     !.log = Append(Append(@,
                                Warning(plugin, key, r.pod,
                                        PodsJsonGet(st.podsjson, "libraries", key))),
                                Event("increment", "libraries", key)),
                     !.podsjson = PodsJsonSet(@, "libraries", key,
                                     Put(r.pod, "count",
                                         PodsJsonGet(st.podsjson, "libraries", key)["count"] + 1)),
                     !.podfile = IF PodfileAddSpecThrows(podJson) THEN @
                                 ELSE PodfileAddSpec(@, podJson["name"], podJson)]
             ELSE IF PodfileAddSpecThrows(podJson)
             THEN [st EXCEPT
                     !.podsjson = PodsJsonSet(@, "libraries", key, podJson),
                     !.log = Append(@, Event("set", "libraries", key)),
                     !.threw = TRUE]
             ELSE [st EXCEPT
                     !.podsjson = PodsJsonSet(@, "libraries", key, podJson),
                     !.podfile = PodfileAddSpec(@, podJson["name"], podJson),
                     !.log = Append(@, Event("set", "libraries", key))]

\* Api.js 396-410
addLibrary(st, plugin, key, library, options) ==
    IF ~TakesPart(plugin.isSPM, library) THEN st
    ELSE LET r == replacePodSpecVariables(library, options)
             podJson == Put(r.pod, "count", 1)
         IN  IF r.throws THEN [st EXCEPT !.threw = TRUE]
             ELSE IF PodsJsonHas(st.podsjson, "libraries", key)
             THEN [st EXCEPT
                     !.log = Append(Append(@,
                                Warning(plugin, key, r.pod,
                                        PodsJsonGet(st.podsjson, "libraries", key))),
                                Event("increment", "libraries", key)),
                     !.podsjson = PodsJsonIncrement(@, "libraries", key)]
             ELSE IF PodfileAddSpecThrows(podJson)
             THEN [st EXCEPT
                     !.podsjson = PodsJsonSet(@, "libraries", key, podJson),
                     !.log = Append(@, Event("set", "libraries", key)),
                     !.threw = TRUE]
             ELSE [st EXCEPT
                     !.podsjson = PodsJsonSet(@, "libraries", key, podJson),
                     !.podfile = PodfileAddSpec(@, podJson["name"], podJson),
                     !.log = Append(@, Event("set", "libraries", key))]

\* variant: the test reads the count as it was before the decrement
RemoveFromPodfilePreDecrement(present, val) ==
    ~present \/ val["count"] = 0

\* Api.js 460-469, 477-486, 494-503: val is the entry object of the
\* ledger, so val.count read after the decrement is the decremented count.
RemoveFromPodfile(present, val) ==
    ~present \/ DecrementedCount(val) = 0

\* variant: the uninstall does not look at the value of the declaration
removeDeclarationUnfiltered(st, key, value) ==
    LET declaration == proofDeclaration(key)
        present == PodsJsonHas(st.podsjson, "declarations", declaration)
    IN  IF present
        THEN [st EXCEPT
                !.podsjson = PodsJsonDecrement(@, "declarations", declaration),
                !.log = Append(@, Event("decrement", "declarations", declaration))]
        ELSE [st EXCEPT
                !.podfile = PodfileRemoveDeclaration(@, declaration),
                !.log = Append(@, Event("recover", "declarations", declaration))]

\* Api.js 455-470
removeDeclaration(st, key, value) ==
    IF value # "true" THEN st
    ELSE LET declaration == proofDeclaration(key)
             present == PodsJsonHas(st.podsjson, "declarations", declaration)
             val == IF present
                    THEN PodsJsonGet(st.podsjson, "declarations", declaration)
                    ELSE EmptyObj
             s1 == IF present
                   THEN [st EXCEPT
                           !.podsjson = PodsJsonDecrement(@, "declarations", declaration),
                           !.log = Append(@, Event("decrement", "declarations", declaration))]
                   ELSE [st EXCEPT
                           !.log = Append(@, Event("recover", "declarations", declaration))]
         IN  IF RemoveFromPodfile(present, val)
             THEN [s1 EXCEPT !.podfile = PodfileRemoveDeclaration(@, declaration)]
             ELSE s1

\* variant: a source that pods.json does not hold is passed over
removeSourceIfRegistered(st, key, source) ==
    LET present == PodsJsonHas(st.podsjson, "sources", key)
        val == IF present THEN PodsJsonGet(st.podsjson, "sources", key)
               ELSE EmptyObj
        s1 == [st EXCEPT
                 !.podsjson = PodsJsonDecrement(@, "sources", key),
                 !.log = Append(@, Event("decrement", "sources", key))]
    IN  IF ~present THEN st
        ELSE IF RemoveFromPodfile(present, val)
        THEN [s1 EXCEPT !.podfile = PodfileRemoveSource(@, source)]
        ELSE s1

\* Api.js 474-486
removeSource(st, key, source) ==
    LET present == PodsJsonHas(st.podsjson, "sources", key)
        val == IF present THEN PodsJsonGet(st.podsjson, "sources", key)
               ELSE EmptyObj
        s1 == IF present
              THEN [st EXCEPT
                      !.podsjson = PodsJsonDecrement(@, "sources", key),
                      !.log = Append(@, Event("decrement", "sources", key))]
              ELSE [st EXCEPT
                      !.log = Append(@, Event("recover", "sources", key))]
    IN  IF RemoveFromPodfile(present, val)
        THEN [s1 EXCEPT !.podfile = PodfileRemoveSource(@, source)]
        ELSE s1

\* variant: the last uninstall leaves the pod in the Podfile
removeLibraryKeepsSpec(st, plugin, key, library, options) ==
    IF ~TakesPart(plugin.isSPM, library) THEN st
    ELSE LET r == replacePodSpecVariables(library, options)
             present == PodsJsonHas(st.podsjson, "libraries", key)
         IN  IF r.throws THEN [st EXCEPT !.threw = TRUE]
             ELSE IF present
             THEN [st EXCEPT
                     !.podsjson = PodsJsonDecrement(@, "libraries", key),
                     !.log = Append(@, Event("decrement", "libraries", key))]
             ELSE [st EXCEPT
                     !.log = Append(@, Event("recover", "libraries", key))]

\* Api.js 491-504
removeLibrary(st, plugin, key, library, options) ==
    IF ~TakesPart(plugin.isSPM, library) THEN st
    ELSE LET r == replacePodSpecVariables(library, options)
             present == PodsJsonHas(st.podsjson, "libraries", key)
             val == IF present THEN PodsJsonGet(st.podsjson, "libraries", key)
                    ELSE EmptyObj
             s1 == IF present
                   THEN [st EXCEPT
                           !.podsjson = PodsJsonDecrement(@, "libraries", key),
                           !.log = Append(@, Event("decrement", "libraries", key))]
                   ELSE [st EXCEPT
                           !.log = Append(@, Event("recover", "libraries", key))]
         IN  IF r.throws THEN [st EXCEPT !.threw = TRUE]
             ELSE IF RemoveFromPodfile(present, val) /\ "name" \in DOMAIN r.pod
             THEN [s1 EXCEPT !.podfile = PodfileRemoveSpec(@, r.pod["name"])]
             ELSE s1

----------------------------------------------------------------------------
(* The order in which the nested forEach loops visit the units *)

DeclarationUnits(obj) ==
    [i \in 1..Len(obj["declarations"]) |->
        [kind |-> "declarations", key |-> obj["declarations"][i][1],
         value |-> obj["declarations"][i][2]]]

SourceUnits(obj) ==
    [i \in 1..Len(obj["sources"]) |->
        [kind |-> "sources", key |-> obj["sources"][i][1],
         source |-> obj["sources"][i][2]]]

LibraryUnits(obj) ==
    [i \in 1..Len(obj["libraries"]) |->
        [kind |-> "libraries", key |-> obj["libraries"][i][1],
         library |-> obj["libraries"][i][2]]]

\* Object.keys(undefined) throws a TypeError
TypeErrorUnit(section) == << [kind |-> "TypeError", key |-> section] >>

\* variant: the sources of a block are visited before its declarations
addUnitsOfBlockSourcesFirst(obj) ==
    (IF "sources" \in DOMAIN obj THEN SourceUnits(obj) ELSE <<>>)
    \o (IF "declarations" \in DOMAIN obj THEN DeclarationUnits(obj) ELSE <<>>)
    \o (IF "libraries" \in DOMAIN obj THEN LibraryUnits(obj) ELSE <<>>)

\* addPodSpecs: a section is visited if (obj.section)
addUnitsOfBlock(obj) ==
    (IF "declarations" \in DOMAIN obj THEN DeclarationUnits(obj) ELSE <<>>)
    \o (IF "sources" \in DOMAIN obj THEN SourceUnits(obj) ELSE <<>>)
    \o (IF "libraries" \in DOMAIN obj THEN LibraryUnits(obj) ELSE <<>>)

\* removePodSpecs: Object.keys(obj.section) without a test
removeUnitsOfBlock(obj) ==
    (IF "declarations" \in DOMAIN obj THEN DeclarationUnits(obj)
     ELSE TypeErrorUnit("declarations"))
    \o (IF "sources" \in DOMAIN obj THEN SourceUnits(obj)
        ELSE TypeErrorUnit("sources"))
    \o (IF "libraries" \in DOMAIN obj THEN LibraryUnits(obj)
        ELSE TypeErrorUnit("libraries"))

RECURSIVE UnitsOf(_, _)
\* podSpecs.forEach(obj => ...)
UnitsOf(op, blocks) ==
    IF blocks = <<>> THEN <<>>
    ELSE (IF op = "add" THEN addUnitsOfBlock(Head(blocks))
          ELSE removeUnitsOfBlock(Head(blocks)))
         \o UnitsOf(op, Tail(blocks))

\* the body of the loops for one unit
addUnit(st, plugin, unit, options) ==
    IF unit.kind = "declarations" THEN addDeclaration(st, unit.key, unit.value)
    ELSE IF unit.kind = "sources" THEN addSource(st, unit.key, unit.source)
    ELSE IF unit.kind = "libraries"
    THEN addLibrary(st, plugin, unit.key, unit.library, options)
    ELSE [st EXCEPT !.threw = TRUE]

removeUnit(st, plugin, unit, options) ==
    IF unit.kind = "declarations" THEN removeDeclaration(st, unit.key, unit.value)
    ELSE IF unit.kind = "sources" THEN removeSource(st, unit.key, unit.source)
    ELSE IF unit.kind = "libraries"
    THEN removeLibrary(st, plugin, unit.key, unit.library, options)
    ELSE [st EXCEPT !.threw = TRUE]

----------------------------------------------------------------------------
(* Bookkeeping of what has been written to pods.json *)

LedgerEvents == {"set", "increment", "decrement"}

Identities(events) ==
    {<<events[i].kind, events[i].key>> :
        i \in {j \in 1..Len(events) : events[j].ev \in LedgerEvents}}

CountEvents(events, evs, id) ==
    Cardinality({i \in 1..Len(events) :
                    events[i].ev \in evs /\ <<events[i].kind, events[i].key>> = id})

NoCommits == [installs |-> 0, uninstalls |-> 0]

CommitsOf(c, id) == IF id \in DOMAIN c THEN c[id] ELSE NoCommits

\* the ledger operations of one call, added to those written before
Commit(c, events) ==
    [id \in (DOMAIN c) \cup Identities(events) |->
        [installs |-> CommitsOf(c, id).installs
                        + CountEvents(events, {"set", "increment"}, id),
         uninstalls |-> CommitsOf(c, id).uninstalls
                        + CountEvents(events, {"decrement"}, id)]]

----------------------------------------------------------------------------
\* lib/versions.js has not been called
NoVersionsCall ==
    [fn |-> "none", args |-> <<>>, given |-> NoSpawnResult, spawns |-> <<>>,
     outcome |-> [kind |-> "none"]]

(* Initial state: a fresh platform, no pods.json entries, an empty Podfile *)

Init ==
    /\ podsJsonDisk = EmptyPodsJson
    /\ podfileDisk = EmptyPodfile
    /\ pc = [c \in Slots |-> "idle"]
    /\ call = [c \in Slots |-> NoRequest]
    /\ podsjsonFile = [c \in Slots |-> EmptyPodsJson]
    /\ podfileFile = [c \in Slots |-> EmptyPodfile]
    /\ loaded = [c \in Slots |-> [podsjson |-> EmptyPodsJson, podfile |-> EmptyPodfile]]
    /\ units = [c \in Slots |-> <<>>]
    /\ log = [c \in Slots |-> <<>>]
    /\ previous = [c \in Slots |->
                     [op |-> "none", id |-> "none", outcome |-> "idle",
                      wrote |-> FALSE, podsjson |-> EmptyPodsJson,
                      podfile |-> EmptyPodfile]]
    /\ committed = EmptyObj
    /\ started = 0
    /\ history = <<>>
    /\ versions = NoVersionsCall

\* variant: a promise may run while another is inside its synchronous
\* section
CanRunAnytime(c) == TRUE

\* no other promise is inside its synchronous section
CanRun(c) == \A d \in Slots \ {c} : pc[d] \notin SyncStages

\* the free slot a new call takes
FreeSlot(c) ==
    /\ pc[c] \in Settled
    /\ \A d \in Slots : d < c => pc[d] \notin Settled

\* what is remembered of the call that used the slot before: the call,
\* how it ended, and the two files as it left them
Summary(c) ==
    [op |-> call[c].op, id |-> call[c].plugin.id, outcome |-> pc[c],
     wrote |-> HasEvent(log[c], "writePodsJson"),
     podsjson |-> podsJsonDisk, podfile |-> podfileDisk]

\* what is kept of a settled call for good: the call, whether addPodSpecs /
\* removePodSpecs visited every unit, and whether it invoked pod install
CallRecord(c) ==
    [op |-> call[c].op, id |-> call[c].plugin.id,
     ran |-> HasEvent(log[c], "writePodsJson"),
     installed |-> HasEvent(log[c], "install")]

\* a settled call as it was made, and whether addPodSpecs / removePodSpecs
\* got as far as writing pods.json
CallMade(c) == [call |-> call[c], ran |-> HasEvent(log[c], "writePodsJson")]

\* Api.addPlugin 233-245 / Api.removePlugin 293-298: the synchronous part,
\* up to the promise of the plugin manager
StartCall(c, req) ==
    /\ FreeSlot(c)
    /\ CanRun(c)
    /\ started' = started + 1
    /\ pc' = [pc EXCEPT ![c] = "pluginManager"]
    /\ call' = [call EXCEPT ![c] =
                  IF req.op = "add"
                  THEN [req EXCEPT !.options.variables =
                           IF PACKAGE_NAME \in DOMAIN @ THEN @
                           ELSE Put(@, PACKAGE_NAME, <<"p">>)]
                  ELSE req]
    /\ previous' = [previous EXCEPT ![c] = Summary(c)]
    /\ podsjsonFile' = [podsjsonFile EXCEPT ![c] = EmptyPodsJson]
    /\ podfileFile' = [podfileFile EXCEPT ![c] = EmptyPodfile]
    /\ loaded' = [loaded EXCEPT ![c] = [podsjson |-> EmptyPodsJson,
                                        podfile |-> EmptyPodfile]]
    /\ units' = [units EXCEPT ![c] = <<>>]
    /\ log' = [log EXCEPT ![c] = <<>>]
    /\ UNCHANGED <<podsJsonDisk, podfileDisk, committed>>

\* the caller awaits each call before it makes the next one
Begin(c, req) ==
    /\ started < MaxCalls
    /\ \A d \in Slots : pc[d] \in Settled
    /\ StartCall(c, req)
    /\ UNCHANGED <<history, versions>>

Reject(c, why) ==
    /\ pc' = [pc EXCEPT ![c] = "rejected"]
    /\ log' = [log EXCEPT ![c] = Append(@, Event("reject", why, ""))]

\* Api.js 244-245 / 297-298: the plugin manager has installed the plugin
PluginManagerResolves(c) ==
    /\ pc[c] = "pluginManager"
    /\ CanRun(c)
    /\ pc' = [pc EXCEPT ![c] = "nativeSteps"]
    /\ UNCHANGED <<podsJsonDisk, podfileDisk, call, podsjsonFile, podfileFile,
                   loaded, units, log, previous, committed, started, history, versions>>

\* variant: the rejection of the plugin manager is caught and the
\* then-callbacks run
PluginManagerRejectsGoesOn(c) ==
    /\ pc[c] = "pluginManager"
    /\ CanRun(c)
    /\ pc' = [pc EXCEPT ![c] = "nativeSteps"]
    /\ log' = [log EXCEPT ![c] = Append(@, Event("reject", "pluginManager", ""))]
    /\ UNCHANGED <<podsJsonDisk, podfileDisk, call, podsjsonFile, podfileFile,
                   loaded, units, previous, committed, started, history, versions>>

\* the promise of the plugin manager rejects: no then-callback runs
PluginManagerRejects(c) ==
    /\ pc[c] = "pluginManager"
    /\ CanRun(c)
    /\ Reject(c, "pluginManager")
    /\ UNCHANGED <<podsJsonDisk, podfileDisk, call, podsjsonFile, podfileFile,
                   loaded, units, previous, committed, started, history, versions>>

\* Api.js 246-269 / 299-322: Swift package and bridging header callbacks
NativeStepsDone(c) ==
    /\ pc[c] = "nativeSteps"
    /\ CanRun(c)
    /\ pc' = [pc EXCEPT ![c] = "podSpecs"]
    /\ UNCHANGED <<podsJsonDisk, podfileDisk, call, podsjsonFile, podfileFile,
                   loaded, units, log, previous, committed, started, history, versions>>

\* one of these callbacks throws (they act only on a plugin that is not null)
NativeStepsThrow(c) ==
    /\ pc[c] = "nativeSteps"
    /\ CanRun(c)
    /\ ~call[c].plugin.isNull
    /\ Reject(c, "nativeSteps")
    /\ UNCHANGED <<podsJsonDisk, podfileDisk, call, podsjsonFile, podfileFile,
                   loaded, units, previous, committed, started, history, versions>>

\* Api.js 342-344 and 271: addPodSpecs returns at once
ReturnsBeforeLoad(req) ==
    \/ req.plugin.isNull
    \/ (req.op = "add" /\ Len(req.plugin.podSpecs) = 0)

\* Api.js 450: the loops, the writes and the installer are inside
\* if (podSpecs.length); addPodSpecs has returned before when it is 0
HasUnitsToProcess(req) == Len(req.plugin.podSpecs) # 0

\* faulty variant of LoadPodsJson: the file is not read
LoadPodsJsonEmpty == EmptyPodsJson

\* Api.js 353 / 447: new PodsJson(path) reads pods.json
LoadPodsJson == JsonParse(podsJsonDisk)

\* Api.js 354 / 448: new Podfile(path, ...) reads the Podfile
LoadPodfile == podfileDisk

\* Api.js 270-275, 341-356 / 323-328, 439-451: the callback that calls
\* addPodSpecs / removePodSpecs, up to the first unit
EnterPodSpecs(c) ==
    /\ pc[c] = "podSpecs"
    /\ CanRun(c)
    /\ IF ReturnsBeforeLoad(call[c])
       THEN /\ pc' = [pc EXCEPT ![c] = "fulfilled"]
            /\ UNCHANGED <<podsjsonFile, podfileFile, loaded, units, log>>
       ELSE /\ podsjsonFile' = [podsjsonFile EXCEPT ![c] = LoadPodsJson]
            /\ podfileFile' = [podfileFile EXCEPT ![c] = LoadPodfile]
            /\ loaded' = [loaded EXCEPT ![c] = [podsjson |-> LoadPodsJson,
                                                podfile |-> LoadPodfile]]
            /\ log' = [log EXCEPT ![c] = Append(@, Event("load", "", ""))]
            /\ IF HasUnitsToProcess(call[c])
               THEN /\ pc' = [pc EXCEPT ![c] = "processing"]
                    /\ units' = [units EXCEPT ![c] =
                                   UnitsOf(call[c].op, call[c].plugin.podSpecs)]
               ELSE /\ pc' = [pc EXCEPT ![c] = "fulfilled"]
                    /\ UNCHANGED units
    /\ UNCHANGED <<podsJsonDisk, podfileDisk, call, previous, committed, started, history, versions>>

\* what the call holds in memory
Memory(c) ==
    [podsjson |-> podsjsonFile[c], podfile |-> podfileFile[c],
     log |-> log[c], threw |-> FALSE]

\* the library as the body of the loop leaves it when it takes part and its
\* variables resolve: the values of the variables in the pin fields, and
\* count 1 on install
WorkedOn(req, library) ==
    IF \/ ~TakesPart(req.plugin.isSPM, library)
       \/ replacePodSpecVariables(library, req.options).throws
    THEN library
    ELSE IF req.op = "add"
    THEN Put(replacePodSpecVariables(library, req.options).pod, "count", 1)
    ELSE replacePodSpecVariables(library, req.options).pod

\* variant: let podJson = obj.libraries[key], the body of the loop assigns
\* to the object the plugin declares
DeclaredAfterUnitAliased(req, unit) ==
    IF unit.kind # "libraries" THEN req
    ELSE [req EXCEPT !.plugin.podSpecs =
             [b \in 1..Len(@) |->
                 [@[b] EXCEPT !["libraries"] =
                     [i \in 1..Len(@) |->
                         IF @[i][1] = unit.key
                         THEN <<@[i][1], WorkedOn(req, @[i][2])>>
                         ELSE @[i]]]]]

\* Api.js 398 / 492: let podJson = Object.assign({}, obj.libraries[key]);
\* replacePodSpecVariables and podJson.count = 1 assign to the copy, the
\* objects of the plugin are as they were
DeclaredAfterUnit(req, unit) == req

\* the body of the loops applied to the next unit
AfterUnit(c) ==
    IF call[c].op = "add"
    THEN addUnit(Memory(c), call[c].plugin, Head(units[c]), call[c].options)
    ELSE removeUnit(Memory(c), call[c].plugin, Head(units[c]), call[c].options)

\* variant: pods.json is written as soon as a unit has changed it
ProcessUnitWritesThrough(c) ==
    /\ pc[c] = "processing"
    /\ units[c] # <<>>
    /\ LET st == AfterUnit(c)
       IN  /\ podsjsonFile' = [podsjsonFile EXCEPT ![c] = st.podsjson]
           /\ podfileFile' = [podfileFile EXCEPT ![c] = st.podfile]
           /\ podsJsonDisk' = st.podsjson
           /\ IF st.threw
              THEN /\ pc' = [pc EXCEPT ![c] = "rejected"]
                   /\ log' = [log EXCEPT ![c] =
                                 Append(st.log, Event("throw", Head(units[c]).kind,
                                                      Head(units[c]).key))]
              ELSE /\ pc' = pc
                   /\ log' = [log EXCEPT ![c] = st.log]
    /\ units' = [units EXCEPT ![c] = Tail(@)]
    /\ UNCHANGED <<podfileDisk, call, loaded, previous,
                   committed, started, history, versions>>

\* Api.js 357-412 / 452-506: one iteration of the loops; an exception
\* leaves the loops and rejects the promise
ProcessUnit(c) ==
    /\ pc[c] = "processing"
    /\ units[c] # <<>>
    /\ LET st == AfterUnit(c)
       IN  /\ podsjsonFile' = [podsjsonFile EXCEPT ![c] = st.podsjson]
           /\ podfileFile' = [podfileFile EXCEPT ![c] = st.podfile]
           /\ IF st.threw
              THEN /\ pc' = [pc EXCEPT ![c] = "rejected"]
                   /\ log' = [log EXCEPT ![c] =
                                 Append(st.log, Event("throw", Head(units[c]).kind,
                                                      Head(units[c]).key))]
              ELSE /\ pc' = pc
                   /\ log' = [log EXCEPT ![c] = st.log]
    /\ units' = [units EXCEPT ![c] = Tail(@)]
    /\ call' = [call EXCEPT ![c] = DeclaredAfterUnit(@, Head(units[c]))]
    /\ UNCHANGED <<podsJsonDisk, podfileDisk, loaded, previous,
                   committed, started, history, versions>>

\* faulty variant of PodfileChanged: the test always passes
PodfileChangedAlways(c) == TRUE

\* Api.js 418 / 511: if (podfileFile.isDirty())
PodfileChanged(c) == PodfileIsDirty(podfileFile[c], loaded[c].podfile)

\* faulty variant of WritePodsJson: pods.json is written only together
\* with the Podfile
WritePodsJsonIfDirty(c) ==
    /\ pc[c] = "processing"
    /\ units[c] = <<>>
    /\ IF podfileFile[c] # loaded[c].podfile
       THEN /\ podsJsonDisk' = podsjsonFile[c]
            /\ committed' = Commit(committed, log[c])
            /\ log' = [log EXCEPT ![c] = Append(@, Event("writePodsJson", "", ""))]
       ELSE UNCHANGED <<podsJsonDisk, committed, log>>
    /\ pc' = [pc EXCEPT ![c] = "podsJsonWritten"]
    /\ UNCHANGED <<podfileDisk, call, podsjsonFile, podfileFile, loaded, units,
                   previous, started, history, versions>>

\* Api.js 415 / 509: podsjsonFile.write()
WritePodsJson(c) ==
    /\ pc[c] = "processing"
    /\ units[c] = <<>>
    /\ podsJsonDisk' = JsonStringify(podsjsonFile[c])
    /\ committed' = Commit(committed, log[c])
    /\ log' = [log EXCEPT ![c] = Append(@, Event("writePodsJson", "", ""))]
    /\ pc' = [pc EXCEPT ![c] = "podsJsonWritten"]
    /\ UNCHANGED <<podfileDisk, call, podsjsonFile, podfileFile, loaded, units,
                   previous, started, history, versions>>

\* faulty variant of WritePodfile: the content does not reach the file
\* before the installer is invoked
WritePodfileNotFlushed(c) ==
    /\ pc[c] = "podsJsonWritten"
    /\ podfileFile[c] # loaded[c].podfile
    /\ log' = [log EXCEPT ![c] = Append(@, Event("writePodfile", "", ""))]
    /\ pc' = [pc EXCEPT ![c] = "podfileWritten"]
    /\ UNCHANGED <<podsJsonDisk, podfileDisk, call, podsjsonFile, podfileFile,
                   loaded, units, previous, committed, started, history, versions>>

\* Api.js 419 / 512: podfileFile.write()
WritePodfile(c) ==
    /\ pc[c] = "podsJsonWritten"
    /\ PodfileChanged(c)
    /\ podfileDisk' = podfileFile[c]
    /\ log' = [log EXCEPT ![c] = Append(@, Event("writePodfile", "", ""))]
    /\ pc' = [pc EXCEPT ![c] = "podfileWritten"]
    /\ UNCHANGED <<podsJsonDisk, call, podsjsonFile, podfileFile, loaded, units,
                   previous, committed, started, history, versions>>

\* faulty variant of SkipInstall: the installer runs for an unchanged Podfile
SkipInstallRunsInstaller(c) ==
    /\ pc[c] = "podsJsonWritten"
    /\ podfileFile[c] = loaded[c].podfile
    /\ log' = [log EXCEPT ![c] = Append(@, Event("install", "", ""))]
    /\ pc' = [pc EXCEPT ![c] = "installing"]
    /\ UNCHANGED <<podsJsonDisk, podfileDisk, call, podsjsonFile, podfileFile,
                   loaded, units, previous, committed, started, history, versions>>

\* Api.js 425-427 / 517-519: Podfile unchanged, skipping `pod install`
SkipInstall(c) ==
    /\ pc[c] = "podsJsonWritten"
    /\ ~PodfileChanged(c)
    /\ log' = [log EXCEPT ![c] = Append(@, Event("skipInstall", "", ""))]
    /\ pc' = [pc EXCEPT ![c] = "fulfilled"]
    /\ UNCHANGED <<podsJsonDisk, podfileDisk, call, podsjsonFile, podfileFile,
                   loaded, units, previous, committed, started, history, versions>>

\* variant: the installer is invoked a second time
InvokeInstallAgain(c) ==
    /\ pc[c] = "podfileWritten"
    /\ log' = [log EXCEPT ![c] = @ \o <<Event("install", "", ""),
                                         Event("install", "", "")>>]
    /\ pc' = [pc EXCEPT ![c] = "installing"]
    /\ UNCHANGED <<podsJsonDisk, podfileDisk, call, podsjsonFile, podfileFile,
                   loaded, units, previous, committed, started, history, versions>>

\* Api.js 423 / 515: podfileFile.install(check_reqs.check_cocoapods)
InvokeInstall(c) ==
    /\ pc[c] = "podfileWritten"
    /\ log' = [log EXCEPT ![c] = Append(@, Event("install", "", ""))]
    /\ pc' = [pc EXCEPT ![c] = "installing"]
    /\ UNCHANGED <<podsJsonDisk, podfileDisk, call, podsjsonFile, podfileFile,
                   loaded, units, previous, committed, started, history, versions>>

\* check_cocoapods rejects: the tool is not there
ToolMissing(c) ==
    /\ pc[c] = "installing"
    /\ CanRun(c)
    /\ Reject(c, "check_cocoapods")
    /\ UNCHANGED <<podsJsonDisk, podfileDisk, call, podsjsonFile, podfileFile,
                   loaded, units, previous, committed, started, history, versions>>

\* faulty variant of InstallFails: the Podfile is put back as it was loaded
InstallFailsRollsBack(c) ==
    /\ pc[c] = "installing"
    /\ CanRun(c)
    /\ Reject(c, "pod install")
    /\ podfileDisk' = loaded[c].podfile
    /\ UNCHANGED <<podsJsonDisk, call, podsjsonFile, podfileFile,
                   loaded, units, previous, committed, started, history, versions>>

\* `pod install` exits with an error
InstallFails(c) ==
    /\ pc[c] = "installing"
    /\ CanRun(c)
    /\ Reject(c, "pod install")
    /\ UNCHANGED <<podsJsonDisk, podfileDisk, call, podsjsonFile, podfileFile,
                   loaded, units, previous, committed, started, history, versions>>

\* Api.js 424 / 516 and 277 / 330: `pod install` succeeded, the Swift
\* version is set for the libraries and the promise fulfils with true
InstallSucceeds(c) ==
    /\ pc[c] = "installing"
    /\ CanRun(c)
    /\ pc' = [pc EXCEPT ![c] = "fulfilled"]
    /\ UNCHANGED <<podsJsonDisk, podfileDisk, call, podsjsonFile, podfileFile,
                   loaded, units, log, previous, committed, started, history, versions>>

Next ==
    \/ \E c \in Slots, req \in Requests : Begin(c, req)
    \/ \E c \in Slots : PluginManagerResolves(c)
    \/ \E c \in Slots : PluginManagerRejects(c)
    \/ \E c \in Slots : NativeStepsDone(c)
    \/ \E c \in Slots : NativeStepsThrow(c)
    \/ \E c \in Slots : EnterPodSpecs(c)
    \/ \E c \in Slots : ProcessUnit(c)
    \/ \E c \in Slots : WritePodsJson(c)
    \/ \E c \in Slots : WritePodfile(c)
    \/ \E c \in Slots : SkipInstall(c)
    \/ \E c \in Slots : InvokeInstall(c)
    \/ \E c \in Slots : ToolMissing(c)
    \/ \E c \in Slots : InstallFails(c)
    \/ \E c \in Slots : InstallSucceeds(c)

Spec == Init /\ [][Next]_vars

\* a round trip: the caller awaits each call, and the calls settled so far
\* are kept
BeginRoundTrip(c, req) ==
    /\ started < MaxRoundTripCalls
    /\ \A d \in Slots : pc[d] \in Settled
    /\ StartCall(c, req)
    /\ history' = IF pc[c] = "idle" THEN history
                  ELSE Append(history, CallRecord(c))
    /\ UNCHANGED versions

NextRoundTrip ==
    \/ \E c \in Slots, req \in RoundTripRequests : BeginRoundTrip(c, req)
    \/ \E c \in Slots : PluginManagerResolves(c)
    \/ \E c \in Slots : PluginManagerRejects(c)
    \/ \E c \in Slots : NativeStepsDone(c)
    \/ \E c \in Slots : NativeStepsThrow(c)
    \/ \E c \in Slots : EnterPodSpecs(c)
    \/ \E c \in Slots : ProcessUnit(c)
    \/ \E c \in Slots : WritePodsJson(c)
    \/ \E c \in Slots : WritePodfile(c)
    \/ \E c \in Slots : SkipInstall(c)
    \/ \E c \in Slots : InvokeInstall(c)
    \/ \E c \in Slots : ToolMissing(c)
    \/ \E c \in Slots : InstallFails(c)
    \/ \E c \in Slots : InstallSucceeds(c)

SpecRoundTrip == Init /\ [][NextRoundTrip]_vars

\* the caller does not await: a call is started while others are in flight
BeginConcurrent(c, req) ==
    /\ started < MaxConcurrentCalls
    /\ StartCall(c, req)
    /\ history' = IF pc[c] = "idle" THEN history
                  ELSE Append(history, CallMade(c))
    /\ UNCHANGED versions

NextConcurrent ==
    \/ \E c \in Slots, req \in ConcurrentRequests : BeginConcurrent(c, req)
    \/ \E c \in Slots : PluginManagerResolves(c)
    \/ \E c \in Slots : PluginManagerRejects(c)
    \/ \E c \in Slots : NativeStepsDone(c)
    \/ \E c \in Slots : NativeStepsThrow(c)
    \/ \E c \in Slots : EnterPodSpecs(c)
    \/ \E c \in Slots : ProcessUnit(c)
    \/ \E c \in Slots : WritePodsJson(c)
    \/ \E c \in Slots : WritePodfile(c)
    \/ \E c \in Slots : SkipInstall(c)
    \/ \E c \in Slots : InvokeInstall(c)
    \/ \E c \in Slots : ToolMissing(c)
    \/ \E c \in Slots : InstallFails(c)
    \/ \E c \in Slots : InstallSucceeds(c)

SpecConcurrent == Init /\ [][NextConcurrent]_vars

\* calls that write pods.json and read it back; the caller awaits each
BeginLedger(c, req) ==
    /\ started < MaxLedgerCalls
    /\ \A d \in Slots : pc[d] \in Settled
    /\ StartCall(c, req)
    /\ UNCHANGED <<history, versions>>

NextLedger ==
    \/ \E c \in Slots, req \in LedgerRequests : BeginLedger(c, req)
    \/ \E c \in Slots : PluginManagerResolves(c)
    \/ \E c \in Slots : PluginManagerRejects(c)
    \/ \E c \in Slots : NativeStepsDone(c)
    \/ \E c \in Slots : NativeStepsThrow(c)
    \/ \E c \in Slots : EnterPodSpecs(c)
    \/ \E c \in Slots : ProcessUnit(c)
    \/ \E c \in Slots : WritePodsJson(c)
    \/ \E c \in Slots : WritePodfile(c)
    \/ \E c \in Slots : SkipInstall(c)
    \/ \E c \in Slots : InvokeInstall(c)
    \/ \E c \in Slots : ToolMissing(c)
    \/ \E c \in Slots : InstallFails(c)
    \/ \E c \in Slots : InstallSucceeds(c)

SpecLedger == Init /\ [][NextLedger]_vars

\* calls with a block that lacks a section, each awaited
BeginSections(c, req) ==
    /\ started < MaxSectionCalls
    /\ \A d \in Slots : pc[d] \in Settled
    /\ StartCall(c, req)
    /\ UNCHANGED <<history, versions>>

NextSections ==
    \/ \E c \in Slots, req \in SectionRequests : BeginSections(c, req)
    \/ \E c \in Slots : PluginManagerResolves(c)
    \/ \E c \in Slots : PluginManagerRejects(c)
    \/ \E c \in Slots : NativeStepsDone(c)
    \/ \E c \in Slots : NativeStepsThrow(c)
    \/ \E c \in Slots : EnterPodSpecs(c)
    \/ \E c \in Slots : ProcessUnit(c)
    \/ \E c \in Slots : WritePodsJson(c)
    \/ \E c \in Slots : WritePodfile(c)
    \/ \E c \in Slots : SkipInstall(c)
    \/ \E c \in Slots : InvokeInstall(c)
    \/ \E c \in Slots : ToolMissing(c)
    \/ \E c \in Slots : InstallFails(c)
    \/ \E c \in Slots : InstallSucceeds(c)

SpecSections == Init /\ [][NextSections]_vars

----------------------------------------------------------------------------
(* lib/versions.js: one call of an exported function *)

apiVars == <<podsJsonDisk, podfileDisk, pc, call, podsjsonFile, podfileFile,
             loaded, units, log, previous, committed, started, history>>

VersionsCall(fn, args, given, res) ==
    [fn |-> fn, args |-> args, given |-> given, spawns |-> res.spawns,
     outcome |-> res.outcome]

CallGetAppleIosVersion(r) ==
    /\ versions' = VersionsCall("get_apple_ios_version", <<>>, r,
                                get_apple_ios_version(r))
    /\ UNCHANGED apiVars

CallGetAppleOsxVersion(r) ==
    /\ versions' = VersionsCall("get_apple_osx_version", <<>>, r,
                                get_apple_osx_version(r))
    /\ UNCHANGED apiVars

CallGetAppleXcodeVersion(r) ==
    /\ versions' = VersionsCall("get_apple_xcode_version", <<>>, r,
                                get_apple_xcode_version(r))
    /\ UNCHANGED apiVars

CallGetIosDeployVersion(r) ==
    /\ versions' = VersionsCall("get_ios_deploy_version", <<>>, r,
                                get_ios_deploy_version(r))
    /\ UNCHANGED apiVars

CallGetCocoapodsVersion(r) ==
    /\ versions' = VersionsCall("get_cocoapods_version", <<>>, r,
                                get_cocoapods_version(r))
    /\ UNCHANGED apiVars

CallGetToolVersion(toolName, r) ==
    /\ versions' = VersionsCall("get_tool_version", <<toolName>>, r,
                                get_tool_version(toolName, r))
    /\ UNCHANGED apiVars

CallCompareVersions(version1, version2) ==
    /\ versions' = VersionsCall("compareVersions", <<version1, version2>>,
                                NoSpawnResult,
                                Probed(<<>>, compareVersions(version1, version2)))
    /\ UNCHANGED apiVars

NextVersions ==
    \/ \E r \in SpawnResults : CallGetAppleIosVersion(r)
    \/ \E r \in SpawnResults : CallGetAppleOsxVersion(r)
    \/ \E r \in SpawnResults : CallGetAppleXcodeVersion(r)
    \/ \E r \in SpawnResults : CallGetIosDeployVersion(r)
    \/ \E r \in SpawnResults : CallGetCocoapodsVersion(r)
    \/ \E toolName \in ToolNames, r \in SpawnResults :
           CallGetToolVersion(toolName, r)
    \/ \E version1, version2 \in VersionStrings :
           CallCompareVersions(version1, version2)

SpecVersions == Init /\ [][NextVersions]_vars

----------------------------------------------------------------------------
(* Properties *)

Quiescent == \A c \in Slots : pc[c] \in Settled

CountOf(pj, kind, key) ==
    IF key \in DOMAIN pj[kind] THEN pj[kind][key]["count"] ELSE 0

\* the Podfile holds the entry a ledger entry stands for
InPodfile(pf, kind, entry) ==
    IF kind = "declarations" THEN entry["declaration"] \in pf.declarations
    ELSE IF kind = "sources" THEN entry["source"] \in pf.sources
    ELSE "name" \in DOMAIN entry /\ entry["name"] \in DOMAIN pf.pods

\* the entries of the Podfile, by kind
PodfileEntries(pf, kind) ==
    IF kind = "declarations" THEN pf.declarations
    ELSE IF kind = "sources" THEN pf.sources
    ELSE DOMAIN pf.pods

\* what a ledger entry puts into the Podfile
PodfileEntryOf(kind, entry) ==
    IF kind = "declarations" THEN entry["declaration"]
    ELSE IF kind = "sources" THEN entry["source"]
    ELSE NameOf(entry)

\* C1: once every call has completed, a declaration, source or library is
\* in the Podfile if and only if its pods.json entry has a count > 0:
\* every counted entry is in the Podfile, and every Podfile entry belongs
\* to a counted entry.
C1_ManifestLedgerConsistency ==
    Quiescent =>
        \A kind \in Kinds :
            /\ \A key \in DOMAIN podsJsonDisk[kind] :
                  CountOf(podsJsonDisk, kind, key) > 0
                      <=> InPodfile(podfileDisk, kind, podsJsonDisk[kind][key])
            /\ \A x \in PodfileEntries(podfileDisk, kind) :
                  \E key \in DOMAIN podsJsonDisk[kind] :
                      /\ CountOf(podsJsonDisk, kind, key) > 0
                      /\ PodfileEntryOf(kind, podsJsonDisk[kind][key]) = x

\* C2: the count of every identity in pods.json is never negative and is
\* the number of its installs written so far minus the number of its
\* uninstalls that found it, or 0 when that is negative; an identity
\* without entry counts 0.
C2_ReferenceCount ==
    \A kind \in Kinds :
        /\ \A key \in DOMAIN podsJsonDisk[kind] :
              /\ CountOf(podsJsonDisk, kind, key) >= 0
              /\ <<kind, key>> \in DOMAIN committed
        /\ \A id \in DOMAIN committed :
              id[1] = kind =>
                  LET net == committed[id].installs - committed[id].uninstalls
                  IN  CountOf(podsJsonDisk, kind, id[2]) = IF net < 0 THEN 0 ELSE net

\* C2 witness: an identity installed twice and uninstalled once counts 1
C2_Witness ==
    \E id \in DOMAIN committed :
        /\ committed[id].installs = 2
        /\ committed[id].uninstalls = 1
        /\ CountOf(podsJsonDisk, id[1], id[2]) = 1

NumEvents(events, ev) ==
    Cardinality({i \in 1..Len(events) : events[i].ev = ev})

\* positions of an event in a log
Positions(events, evs) == {i \in 1..Len(events) : events[i].ev \in evs}

\* the call ran addPodSpecs / removePodSpecs to its last statement
RanToEnd(c) ==
    \/ pc[c] = "fulfilled"
    \/ (pc[c] = "rejected" /\ HasEvent(log[c], "install"))

\* C3: `pod install` is invoked, and the Podfile written, only in a call
\* whose Podfile object differs from what it loaded once its units are
\* processed; a call that leaves it equal writes no Podfile, invokes no
\* installer and leaves the file as it was.
C3_InstallOnlyIfDirty ==
    \A c \in Slots :
        /\ (HasEvent(log[c], "install") \/ HasEvent(log[c], "writePodfile"))
              => /\ podfileFile[c] # loaded[c].podfile
                 /\ units[c] = <<>>
                 /\ pc[c] \notin {"processing", "podsJsonWritten"}
        /\ (RanToEnd(c) /\ HasEvent(log[c], "load")
                /\ podfileFile[c] = loaded[c].podfile)
              => /\ ~HasEvent(log[c], "install")
                 /\ ~HasEvent(log[c], "writePodfile")
                 /\ podfileDisk = loaded[c].podfile

\* C3 witness: a call that changed counts only has ended without installer
C3_Witness ==
    \E c \in Slots :
        /\ pc[c] = "fulfilled"
        /\ HasEvent(log[c], "increment")
        /\ HasEvent(log[c], "skipInstall")
        /\ podfileFile[c] = loaded[c].podfile

\* the second of two installs of one plugin in a row, both run to the end
SecondInstall(c) ==
    /\ RanToEnd(c)
    /\ call[c].op = "add"
    /\ ~call[c].plugin.isNull
    /\ previous[c].op = "add"
    /\ previous[c].id = call[c].plugin.id
    /\ (previous[c].outcome = "fulfilled" \/ previous[c].wrote)

\* C4: after the second of two installs of the same plugin in a row the
\* Podfile is what it was after the first, the second call has only
\* incremented counts, its Podfile object is not dirty and it has neither
\* written the Podfile nor invoked the installer.
C4_IdempotentReinstall ==
    \A c \in Slots :
        SecondInstall(c) =>
            /\ podfileDisk = previous[c].podfile
            /\ podfileFile[c] = loaded[c].podfile
            /\ ~HasEvent(log[c], "install")
            /\ ~HasEvent(log[c], "writePodfile")
            /\ ~HasEvent(log[c], "set")
            /\ ~HasEvent(log[c], "decrement")
            /\ \A kind \in Kinds :
                  /\ DOMAIN podsJsonDisk[kind] = DOMAIN previous[c].podsjson[kind]
                  /\ \A key \in DOMAIN podsJsonDisk[kind] :
                        podsJsonDisk[kind][key] =
                            [previous[c].podsjson[kind][key] EXCEPT !["count"] =
                                @ + CountEvents(log[c], {"increment"}, <<kind, key>>)]

\* C4 witness: a second install that incremented a count
C4_Witness ==
    \E c \in Slots :
        /\ SecondInstall(c)
        /\ HasEvent(log[c], "increment")
        /\ podsJsonDisk # previous[c].podsjson

\* the units of an install that take part in the reconciliation
ParticipatingUnits(req) ==
    LET us == UnitsOf("add", req.plugin.podSpecs)
    IN  {us[i] : i \in {j \in 1..Len(us) :
            \/ (us[j].kind = "declarations" /\ us[j].value = "true")
            \/ us[j].kind = "sources"
            \/ (us[j].kind = "libraries"
                    /\ TakesPart(req.plugin.isSPM, us[j].library))}}

\* the ledger key of a unit
KeyOfUnit(u) ==
    IF u.kind = "declarations" THEN proofDeclaration(u.key) ELSE u.key

\* the Podfile has an entry under the name of the unit
NamePresent(pf, u) ==
    IF u.kind = "declarations" THEN proofDeclaration(u.key) \in pf.declarations
    ELSE IF u.kind = "sources" THEN u.source \in pf.sources
    ELSE "name" \in DOMAIN u.library /\ u.library["name"] \in DOMAIN pf.pods

\* the Podfile has the very entry the unit asks for
ContentPresent(pf, u, options) ==
    /\ NamePresent(pf, u)
    /\ u.kind = "libraries" =>
          /\ ~replacePodSpecVariables(u.library, options).throws
          /\ pf.pods[u.library["name"]] =
                PinOf(replacePodSpecVariables(u.library, options).pod)

\* neither pods.json nor the Podfile know the unit
GenuinelyNew(pj, pf, u) ==
    /\ KeyOfUnit(u) \notin DOMAIN pj[u.kind]
    /\ ~NamePresent(pf, u)

\* an install that ran to the end
InstallRan(c) ==
    /\ RanToEnd(c)
    /\ call[c].op = "add"
    /\ ~call[c].plugin.isNull

\* C5: an install whose units are all in the Podfile already invokes the
\* installer 0 times; an install with at least one unit that is new to
\* pods.json and to the Podfile invokes it exactly once; no call invokes
\* it more than once.
C5_MinimalInstallerInvocation ==
    \A c \in Slots :
        /\ NumEvents(log[c], "install") <= 1
        /\ (InstallRan(c)
               /\ \A u \in ParticipatingUnits(call[c]) :
                     ContentPresent(previous[c].podfile, u, call[c].options))
              => NumEvents(log[c], "install") = 0
        /\ (InstallRan(c)
               /\ \E u \in ParticipatingUnits(call[c]) :
                     GenuinelyNew(previous[c].podsjson, previous[c].podfile, u))
              => NumEvents(log[c], "install") = 1

\* C5 witness: an install of several new units has invoked the installer
\* once, after an earlier install had filled the Podfile
C5_Witness ==
    \E c \in Slots :
        /\ InstallRan(c)
        /\ previous[c].podfile # EmptyPodfile
        /\ Cardinality({u \in ParticipatingUnits(call[c]) :
               GenuinelyNew(previous[c].podsjson, previous[c].podfile, u)}) >= 1
        /\ NumEvents(log[c], "install") = 1

\* C6: in every call pods.json is written before the Podfile and the
\* Podfile before the installer is invoked; when the installer is invoked
\* and while it runs, both files hold what the call has in memory.
C6_PersistenceOrdering ==
    \A c \in Slots :
        /\ \A i \in Positions(log[c], {"writePodfile"}) :
              \E j \in Positions(log[c], {"writePodsJson"}) : j < i
        /\ \A i \in Positions(log[c], {"install"}) :
              \E j \in Positions(log[c], {"writePodfile"}) : j < i
        /\ pc[c] \in {"podfileWritten", "installing"}
              => /\ podsJsonDisk = podsjsonFile[c]
                 /\ podfileDisk = podfileFile[c]
                 /\ podfileDisk # loaded[c].podfile

\* C6 witness: the installer runs after both files have changed
C6_Witness ==
    \E c \in Slots :
        /\ pc[c] = "installing"
        /\ podsJsonDisk # loaded[c].podsjson
        /\ podfileDisk # loaded[c].podfile

\* C7 as claimed: every call that reconciles the pods of a plugin writes
\* pods.json exactly once, whatever the plugin declares.
C7_LedgerWrittenOncePerCall ==
    \A c \in Slots :
        (pc[c] = "fulfilled" /\ ~call[c].plugin.isNull)
            => NumEvents(log[c], "writePodsJson") = 1

\* the plugin of the call has at least one <podspec> block
HasPodSpecs(c) ==
    ~call[c].plugin.isNull /\ Len(call[c].plugin.podSpecs) > 0

\* C7 amended: a call with a non-empty list of podspec blocks whose
\* units are all processed writes pods.json exactly once, after every
\* ledger operation of the call, whether or not the Podfile changed; a
\* call with an empty list, and a call that an exception takes out of the
\* loops, does not write it; no call writes it twice.
C7_LedgerWrittenOnceAfterUnits ==
    \A c \in Slots :
        /\ NumEvents(log[c], "writePodsJson") <= 1
        /\ (HasPodSpecs(c)
               /\ (RanToEnd(c)
                     \/ pc[c] \in {"podsJsonWritten", "podfileWritten", "installing"}))
              => /\ NumEvents(log[c], "writePodsJson") = 1
                 /\ \A i \in Positions(log[c], LedgerEvents) :
                       \A j \in Positions(log[c], {"writePodsJson"}) : i < j
        /\ pc[c] = "processing" => ~HasEvent(log[c], "writePodsJson")
        /\ (pc[c] # "idle" /\ ~HasPodSpecs(c))
              => ~HasEvent(log[c], "writePodsJson")
        /\ HasEvent(log[c], "throw")
              => /\ ~HasEvent(log[c], "writePodsJson")
                 /\ pc[c] = "rejected"
                 /\ podsJsonDisk = loaded[c].podsjson

\* C7 witness: a call that left the Podfile alone has written pods.json
C7_Witness ==
    \E c \in Slots :
        /\ HasPodSpecs(c)
        /\ pc[c] = "fulfilled"
        /\ HasEvent(log[c], "skipInstall")
        /\ HasEvent(log[c], "decrement")
        /\ NumEvents(log[c], "writePodsJson") = 1

\* the installer or its tool check has failed
InstallerFailed(c) ==
    /\ Len(log[c]) > 0
    /\ log[c][Len(log[c])].ev = "reject"
    /\ log[c][Len(log[c])].kind \in {"check_cocoapods", "pod install"}

\* C8: when the installer or its tool check fails the promise rejects and
\* both files hold every change of the call, as they do when the
\* installer succeeds.
C8_NoRollbackOnInstallerFailure ==
    \A c \in Slots :
        /\ InstallerFailed(c) => pc[c] = "rejected"
        /\ (HasEvent(log[c], "install") /\ pc[c] \in {"fulfilled", "rejected"})
              => /\ podsJsonDisk = podsjsonFile[c]
                 /\ podfileDisk = podfileFile[c]
                 /\ podfileDisk # loaded[c].podfile

\* C8 witness: `pod install` failed in a call that changed both files
C8_Witness ==
    \E c \in Slots :
        /\ InstallerFailed(c)
        /\ podsJsonDisk # loaded[c].podsjson
        /\ podfileDisk # loaded[c].podfile

\* the next step of c installs a library whose key pods.json holds
InstallsRegisteredLibrary(c) ==
    /\ pc[c] = "processing"
    /\ units[c] # <<>>
    /\ call[c].op = "add"
    /\ Head(units[c]).kind = "libraries"
    /\ TakesPart(call[c].plugin.isSPM, Head(units[c]).library)
    /\ ~replacePodSpecVariables(Head(units[c]).library, call[c].options).throws
    /\ Head(units[c]).key \in DOMAIN podsjsonFile[c]["libraries"]

\* C9: installing a library whose key is registered adds 1 to its count,
\* leaves its registered payload as it is and leaves the Podfile alone.
C9_FirstWriterWins ==
    [][\A c \in Slots :
          (InstallsRegisteredLibrary(c) /\ units'[c] # units[c])
              => /\ podfileFile'[c] = podfileFile[c]
                 /\ podsjsonFile'[c] =
                       [podsjsonFile[c] EXCEPT
                           !["libraries"][Head(units[c]).key]["count"] = @ + 1]]_vars

\* C9 witness: a library was installed again with another version pin
C9_Witness ==
    \E c \in Slots : \E i \in 1..Len(log[c]) :
        /\ log[c][i].ev = "warn"
        /\ log[c][i].requested # log[c][i].registered
        /\ log[c][i].key \in DOMAIN podsjsonFile[c]["libraries"]
        /\ Del(podsjsonFile[c]["libraries"][log[c][i].key], "count")
              = log[c][i].registered
        /\ podsjsonFile[c]["libraries"][log[c][i].key]["count"] >= 2

\* C10: a conflict warning is emitted on the install of a registered
\* library key only when the requested payload differs from the
\* registered one.
C10_WarningOnlyOnConflict ==
    \A c \in Slots : \A i \in 1..Len(log[c]) :
        log[c][i].ev = "warn" => log[c][i].requested # log[c][i].registered

----------------------------------------------------------------------------
(* Uninstall of one unit *)

\* the next step of c uninstalls a unit: a declaration that is 'true', a
\* source, or a library that takes part and whose variables resolve
UninstallsUnit(c) ==
    /\ pc[c] = "processing"
    /\ units[c] # <<>>
    /\ call[c].op = "remove"
    /\ Head(units[c]).kind \in Kinds
    /\ Head(units[c]).kind = "declarations" => Head(units[c]).value = "true"
    /\ Head(units[c]).kind = "libraries"
          => /\ TakesPart(call[c].plugin.isSPM, Head(units[c]).library)
             /\ ~replacePodSpecVariables(Head(units[c]).library,
                                         call[c].options).throws

\* the key under which pods.json is asked for a unit
LedgerKey(unit) ==
    IF unit.kind = "declarations" THEN proofDeclaration(unit.key) ELSE unit.key

CountIn(pj, kind, key) ==
    IF key \in DOMAIN pj[kind] THEN pj[kind][key]["count"] ELSE 0

\* the Podfile without the entry a unit stands for
WithoutEntry(pf, unit) ==
    IF unit.kind = "declarations"
    THEN [pf EXCEPT !.declarations = @ \ {LedgerKey(unit)}]
    ELSE IF unit.kind = "sources"
    THEN [pf EXCEPT !.sources = @ \ {unit.source}]
    ELSE IF "name" \in DOMAIN unit.library
    THEN [pf EXCEPT !.pods =
             [n \in DOMAIN @ \ {unit.library["name"]} |-> @[n]]]
    ELSE pf

\* C11: the uninstall of a unit that pods.json holds takes 1 from its
\* count; the entry of the unit leaves the Podfile exactly when the count
\* after the decrement is 0, and while it is greater than 0 the Podfile is
\* left as it is. A remove call all of whose units stay registered does
\* not invoke pod install.
C11_DecrementAndRemoveAtZero ==
    /\ [][\A c \in Slots :
            (/\ UninstallsUnit(c)
             /\ units'[c] # units[c]
             /\ CountIn(podsjsonFile[c], Head(units[c]).kind,
                        LedgerKey(Head(units[c]))) > 0)
                => LET unit == Head(units[c])
                       after == CountIn(podsjsonFile[c], unit.kind,
                                        LedgerKey(unit)) - 1
                   IN  /\ CountIn(podsjsonFile'[c], unit.kind, LedgerKey(unit))
                             = after
                       /\ after > 0 => podfileFile'[c] = podfileFile[c]
                       /\ after = 0
                             => podfileFile'[c] = WithoutEntry(podfileFile[c], unit)
                       /\ pc'[c] = pc[c]]_vars
    /\ [](\A c \in Slots :
            (/\ call[c].op = "remove"
             /\ \A i \in 1..Len(log[c]) :
                    /\ log[c][i].ev # "recover"
                    /\ log[c][i].ev = "decrement"
                          => CountIn(podsjsonFile[c], log[c][i].kind,
                                     log[c][i].key) > 0)
                => ~HasEvent(log[c], "install"))

\* C11 witness: one remove call took a unit to count 0, which left the
\* Podfile, and another unit to a count above 0
C11_Witness ==
    \E c \in Slots : \E i, j \in 1..Len(log[c]) :
        /\ call[c].op = "remove"
        /\ log[c][i].ev = "decrement"
        /\ log[c][j].ev = "decrement"
        /\ CountIn(podsjsonFile[c], log[c][i].kind, log[c][i].key) = 0
        /\ CountIn(loaded[c].podsjson, log[c][i].kind, log[c][i].key) = 1
        /\ CountIn(podsjsonFile[c], log[c][j].kind, log[c][j].key) > 0
        /\ podfileFile[c] # loaded[c].podfile
        /\ pc[c] = "fulfilled"

\* C12: the uninstall of a unit that pods.json does not hold does not
\* fail, emits the recovery message, leaves pods.json as it is (no entry
\* is created and no count falls below 1) and still removes the entry of
\* the unit from the Podfile.
C12_RecoveryOnUninstall ==
    /\ [][\A c \in Slots :
            (/\ UninstallsUnit(c)
             /\ units'[c] # units[c]
             /\ CountIn(podsjsonFile[c], Head(units[c]).kind,
                        LedgerKey(Head(units[c]))) = 0)
                => LET unit == Head(units[c])
                   IN  /\ pc'[c] = "processing"
                       /\ log'[c] = Append(log[c],
                              Event("recover", unit.kind, LedgerKey(unit)))
                       /\ podsjsonFile'[c] = podsjsonFile[c]
                       /\ podfileFile'[c] = WithoutEntry(podfileFile[c], unit)]_vars
    /\ [](\A c \in Slots : \A kind \in Kinds :
            \A key \in DOMAIN podsjsonFile[c][kind] :
                podsjsonFile[c][kind][key]["count"] >= 1)

\* C12 witness: a remove call that was fulfilled met a source pods.json did
\* not hold; every unit it decremented stayed registered, and the Podfile
\* lost the entry of the unregistered source
C12_Witness ==
    \E c \in Slots : \E i \in 1..Len(log[c]) :
        /\ call[c].op = "remove"
        /\ pc[c] = "fulfilled"
        /\ log[c][i].ev = "recover"
        /\ log[c][i].kind = "sources"
        /\ log[c][i].key \notin DOMAIN podsJsonDisk["sources"]
        /\ \A j \in 1..Len(log[c]) :
              log[c][j].ev = "decrement"
                 => CountIn(podsjsonFile[c], log[c][j].kind, log[c][j].key) > 0
        /\ podfileDisk.sources # loaded[c].podfile.sources

----------------------------------------------------------------------------
(* Round trip *)

\* every call made so far, once all of them have settled
CallsMade ==
    IF pc[1] = "idle" THEN history ELSE Append(history, CallRecord(1))

NumCallsOf(calls, from, to, id) ==
    Cardinality({i \in from..to : calls[i].id = id})

\* k plugins installed the library, then the same k plugins uninstalled it,
\* and each of the 2k calls went through all its units
IsRoundTrip(calls, k) ==
    /\ k >= 1
    /\ Len(calls) = 2 * k
    /\ \A i \in 1..(2 * k) :
          /\ calls[i].ran
          /\ calls[i].op = IF i <= k THEN "add" ELSE "remove"
    /\ \A id \in {PluginC.id, PluginR.id} :
          NumCallsOf(calls, 1, k, id) = NumCallsOf(calls, k + 1, 2 * k, id)

\* C13: when k >= 1 plugins have installed the same library and then all
\* of them have uninstalled it, in whatever order, the Podfile does not
\* hold the library, pods.json does not hold its key, and pod install was
\* invoked by the first install and by the last uninstall and by no other
\* call.
C13_RoundTrip ==
    \A k \in 1..MaxRoundTripCalls :
        (Quiescent /\ IsRoundTrip(CallsMade, k))
            => /\ "AFNetworking" \notin DOMAIN podfileDisk.pods
               /\ CountIn(podsJsonDisk, "libraries", "AFN") = 0
               /\ {i \in 1..(2 * k) : CallsMade[i].installed} = {1, 2 * k}

\* C13 witness: two different plugins installed the library and
\* uninstalled it in the order of their installs
C13_Witness ==
    /\ Quiescent
    /\ IsRoundTrip(CallsMade, 2)
    /\ CallsMade[1].id # CallsMade[2].id
    /\ CallsMade[3].id = CallsMade[1].id

----------------------------------------------------------------------------
(* Libraries excluded from Swift packages *)

\* the flag is true, 1, or 'true' in any letter case
ExcludedFlag(flag) ==
    \/ (flag.t = "boolean" /\ flag.v = TRUE)
    \/ (flag.t = "number" /\ flag.v = 1)
    \/ (flag.t = "string" /\ flag.v \in {"true", "True", "TRUE"})

\* the next unit of c is a library flagged nospm, of a Swift package plugin
AtExcludedLibrary(c) ==
    /\ pc[c] = "processing"
    /\ units[c] # <<>>
    /\ Head(units[c]).kind = "libraries"
    /\ call[c].plugin.isSPM
    /\ "nospm" \in DOMAIN Head(units[c]).library
    /\ ExcludedFlag(Head(units[c]).library["nospm"])

\* C14: a library flagged nospm (true, 'true' in any letter case, or 1) of
\* a Swift package plugin is passed over by install and by uninstall: the
\* step changes neither pods.json nor the Podfile, emits nothing, and the
\* call goes on.
C14_ExcludedLibrarySkipped ==
    [][\A c \in Slots :
          (AtExcludedLibrary(c) /\ units'[c] # units[c])
              => /\ podsjsonFile'[c] = podsjsonFile[c]
                 /\ podfileFile'[c] = podfileFile[c]
                 /\ log'[c] = log[c]
                 /\ pc'[c] = "processing"
                 /\ units'[c] = Tail(units[c])]_vars

\* C14 witness: an install of the Swift package plugin was fulfilled; its
\* three flagged libraries, one per spelling of the flag, are in neither
\* file, while its library that is not flagged is in both
C14_Witness ==
    \E c \in Slots :
        /\ pc[c] = "fulfilled"
        /\ call[c].op = "add"
        /\ call[c].plugin = PluginD
        /\ HasEvent(log[c], "install")
        /\ DOMAIN podsJsonDisk["libraries"] = {"H"}
        /\ DOMAIN podfileDisk.pods = {"$LIB"}
        /\ \A i \in 1..3 :
              ExcludedFlag(PluginD.podSpecs[1]["libraries"][i][2]["nospm"])
        /\ {PluginD.podSpecs[1]["libraries"][i][2]["nospm"].t : i \in 1..3}
              = {"string", "boolean", "number"}

----------------------------------------------------------------------------
(* Variable resolution *)

\* the next unit of c is a library that takes part
AtLibrary(c) ==
    /\ pc[c] = "processing"
    /\ units[c] # <<>>
    /\ Head(units[c]).kind = "libraries"
    /\ TakesPart(call[c].plugin.isSPM, Head(units[c]).library)

\* what options.variables holds under the name a value refers to
VariableOf(value, options) ==
    IF ReplaceFirst(value, "$") \in DOMAIN options.variables
    THEN options.variables[ReplaceFirst(value, "$")]
    ELSE Undefined

\* C15: a field value of a library that contains `$` is resolved to what
\* the variables mapping of the options of the call holds under the rest
\* of the value, and a value without `$` is returned as it is.
C15_ResolvesAgainstVariables ==
    \A c \in Slots :
        (AtLibrary(c) /\ "variables" \in DOMAIN call[c].options)
            => LET library == Head(units[c]).library
                   r == replacePodSpecVariables(library, call[c].options)
               IN  /\ ~r.throws
                   /\ \A e \in podSpecFields \cap DOMAIN library :
                         r.pod[e] = IF Includes(library[e], "$")
                                    THEN VariableOf(library[e], call[c].options)
                                    ELSE library[e]

\* C16: variable resolution never makes a call fail: whatever the options
\* of an add or remove call are, the step of a library that has a name
\* does not reject the call.
C16_ResolutionNeverFails ==
    [][\A c \in Slots :
          (AtLibrary(c) /\ "name" \in DOMAIN Head(units[c]).library)
              => pc'[c] # "rejected"]_vars

\* the next step of c registers a library under a key pods.json lacks
RegistersLibrary(c) ==
    /\ AtLibrary(c)
    /\ call[c].op = "add"
    /\ Head(units[c]).key \notin DOMAIN podsjsonFile[c]["libraries"]
    /\ \A e \in podSpecFields \cap DOMAIN Head(units[c]).library :
          ~getVariableSpec(Head(units[c]).library[e], call[c].options).throws

\* names are whole strings in this model: the one name that is a
\* placeholder, and what resolution would make of it
ResolvedName(name, options) ==
    IF name = "$LIB" THEN options.cli_variables[NameLIB] ELSE name

\* C17 as claimed: every field of a library payload but the key, its name
\* included, is resolved before the payload is stored in pods.json, under
\* the key the plugin gave.
C17_ResolvesEveryField ==
    [][\A c \in Slots :
          (RegistersLibrary(c) /\ units'[c] # units[c])
              => LET unit == Head(units[c])
                     stored == podsjsonFile'[c]["libraries"][unit.key]
                 IN  /\ unit.key \in DOMAIN podsjsonFile'[c]["libraries"]
                     /\ \A e \in DOMAIN unit.library :
                           stored[e] =
                              IF e \in podSpecFields
                              THEN getVariableSpec(unit.library[e],
                                                   call[c].options).value
                              ELSE IF e = "name"
                              THEN ResolvedName(unit.library[e], call[c].options)
                              ELSE unit.library[e]]_vars

\* C17: the fields spec, tag, git, commit and branch of a library payload
\* that are not empty are resolved once before the payload is stored in
\* pods.json and written to the Podfile; its name and every other field
\* are stored as declared, and the key under which it is stored is the
\* key the plugin gave.
C17_ResolvesPinFields ==
    [][\A c \in Slots :
          (RegistersLibrary(c) /\ units'[c] # units[c])
              => LET unit == Head(units[c])
                     stored == podsjsonFile'[c]["libraries"][unit.key]
                     expected ==
                        [e \in DOMAIN unit.library \cup {"count"} |->
                            IF e = "count" THEN 1
                            ELSE IF e \in podSpecFields /\ Truthy(unit.library[e])
                            THEN getVariableSpec(unit.library[e],
                                                 call[c].options).value
                            ELSE unit.library[e]]
                 IN  /\ DOMAIN podsjsonFile'[c]["libraries"]
                           = DOMAIN podsjsonFile[c]["libraries"] \cup {unit.key}
                     /\ stored = expected
                     /\ "name" \in DOMAIN unit.library
                           => /\ unit.library["name"]
                                    \in DOMAIN podfileFile'[c].pods
                              /\ podfileFile'[c].pods[unit.library["name"]]
                                    = [e \in podSpecFields \cap DOMAIN expected
                                          |-> expected[e]]]_vars

\* C17 witness: the library with a placeholder for a name and a variable
\* for a version pin is in pods.json and in the Podfile, the pin resolved
\* and the name as declared
C17_Witness ==
    /\ "H" \in DOMAIN podsJsonDisk["libraries"]
    /\ podsJsonDisk["libraries"]["H"]["spec"] = V40
    /\ podsJsonDisk["libraries"]["H"]["name"] = "$LIB"
    /\ "$LIB" \in DOMAIN podfileDisk.pods
    /\ podfileDisk.pods["$LIB"]["spec"] = V40

----------------------------------------------------------------------------
(* Processing order *)

Sections == <<"declarations", "sources", "libraries">>

\* the units of a call as places <<block, section, index>>; a section that
\* a block lacks is skipped by add and is one place (index 0) for remove
Places(op, blocks) ==
    UNION {
        IF Sections[r] \in DOMAIN blocks[b]
        THEN {<<b, r, i>> : i \in 1..Len(blocks[b][Sections[r]])}
        ELSE IF op = "remove" THEN {<<b, r, 0>>} ELSE {} :
        b \in 1..Len(blocks), r \in 1..3}

LexLess(x, y) ==
    \/ x[1] < y[1]
    \/ (x[1] = y[1] /\ x[2] < y[2])
    \/ (x[1] = y[1] /\ x[2] = y[2] /\ x[3] < y[3])

\* kind before block before index
KindFirst(t, u) == LexLess(<<t[2], t[1], t[3]>>, <<u[2], u[1], u[3]>>)

\* block before kind before index
BlockFirst(t, u) == LexLess(t, u)

PlaceAt(places, n, Before(_, _)) ==
    CHOOSE t \in places : Cardinality({u \in places : Before(u, t)}) = n - 1

KindAt(t) == IF t[3] = 0 THEN "TypeError" ELSE Sections[t[2]]

KeyAt(blocks, t) ==
    IF t[3] = 0 THEN Sections[t[2]] ELSE blocks[t[1]][Sections[t[2]]][t[3]][1]

\* the units c has still to visit are the last places of its call in the
\* order Before
QueueFollows(c, Before(_, _)) ==
    LET blocks == call[c].plugin.podSpecs
        places == Places(call[c].op, blocks)
        done == Cardinality(places) - Len(units[c])
    IN  /\ done >= 0
        /\ \A n \in 1..Len(units[c]) :
              LET t == PlaceAt(places, done + n, Before)
              IN  /\ units[c][n].kind = KindAt(t)
                  /\ units[c][n].key = KeyAt(blocks, t)

\* C18 as claimed: the units of a call are processed declarations first,
\* then sources, then libraries, each kind in the order of declaration,
\* also when the plugin has several podspec blocks.
C18_KindByKind ==
    \A c \in Slots : pc[c] = "processing" => QueueFollows(c, KindFirst)

\* C18: the units of a call are processed block by block in the order of
\* the podspec blocks; within a block declarations come first, then
\* sources, then libraries, each kind in the order of declaration.
C18_BlockByBlock ==
    \A c \in Slots : pc[c] = "processing" => QueueFollows(c, BlockFirst)

\* C18 witness: an install of the plugin with two blocks has processed the
\* library of its first block and is about to process the declaration of
\* its second block
C18_Witness ==
    \E c \in Slots :
        /\ pc[c] = "processing"
        /\ call[c].op = "add"
        /\ Len(call[c].plugin.podSpecs) = 2
        /\ units[c] # <<>>
        /\ Head(units[c]).kind = "declarations"
        /\ \E i \in 1..Len(log[c]) :
              /\ log[c][i].kind = "libraries"
              /\ log[c][i].ev \in {"set", "increment"}

----------------------------------------------------------------------------
(* A library without a name *)

\* the next step of c installs a library that has no name
InstallsNamelessLibrary(c) ==
    /\ AtLibrary(c)
    /\ call[c].op = "add"
    /\ "name" \notin DOMAIN Head(units[c]).library
    /\ ~replacePodSpecVariables(Head(units[c]).library, call[c].options).throws

\* addSpec has refused a library without a name: the last thing c did
ConfigurationError(c) ==
    /\ call[c].op = "add"
    /\ Len(log[c]) >= 2
    /\ log[c][Len(log[c])].ev = "throw"
    /\ log[c][Len(log[c])].kind = "libraries"
    /\ log[c][Len(log[c]) - 1].ev = "set"
    /\ log[c][Len(log[c]) - 1].key = log[c][Len(log[c])].key

HasNamelessLibrary(plugin) ==
    \E b \in 1..Len(plugin.podSpecs) :
        \E i \in 1..Len(plugin.podSpecs[b]["libraries"]) :
            "name" \notin DOMAIN plugin.podSpecs[b]["libraries"][i][2]

\* C19 as claimed: an add call with a library without a name fails, and
\* when it has failed neither what the call holds in memory nor the two
\* files differ from what they were before the call.
C19_AbortsBeforeAnyMutation ==
    \A c \in Slots :
        /\ (call[c].op = "add" /\ HasNamelessLibrary(call[c].plugin))
              => ~HasEvent(log[c], "writePodsJson")
        /\ ConfigurationError(c)
              => /\ podsjsonFile[c] = loaded[c].podsjson
                 /\ podfileFile[c] = loaded[c].podfile
                 /\ podsJsonDisk = loaded[c].podsjson
                 /\ podfileDisk = loaded[c].podfile

\* C19: the install of a library without a name fails when pods.json does
\* not hold its key, and only counts when it does; the call that fails is
\* rejected before it writes anything, so the two files are what they were
\* before the call, and pod install is not invoked.
C19_AbortsBeforeAnyWrite ==
    /\ [][\A c \in Slots :
            (InstallsNamelessLibrary(c) /\ units'[c] # units[c])
                => LET key == Head(units[c]).key
                   IN  IF key \in DOMAIN podsjsonFile[c]["libraries"]
                       THEN /\ pc'[c] = "processing"
                            /\ CountIn(podsjsonFile'[c], "libraries", key)
                                  = CountIn(podsjsonFile[c], "libraries", key) + 1
                       ELSE /\ pc'[c] = "rejected"
                            /\ podsJsonDisk' = podsJsonDisk
                            /\ podfileDisk' = podfileDisk]_vars
    /\ [](\A c \in Slots :
            ConfigurationError(c)
                => /\ pc[c] = "rejected"
                   /\ ~HasEvent(log[c], "writePodsJson")
                   /\ ~HasEvent(log[c], "writePodfile")
                   /\ ~HasEvent(log[c], "install")
                   /\ podsJsonDisk = loaded[c].podsjson
                   /\ podfileDisk = loaded[c].podfile)

\* C19 witness: a call failed on a library without a name after it had
\* registered a source; what it holds in memory has the source and the
\* library, the files have neither
C19_Witness ==
    \E c \in Slots :
        /\ ConfigurationError(c)
        /\ HasEvent(log[c], "set")
        /\ DOMAIN podsjsonFile[c]["sources"] # DOMAIN loaded[c].podsjson["sources"]
        /\ DOMAIN podsjsonFile[c]["libraries"]
              # DOMAIN loaded[c].podsjson["libraries"]
        /\ podfileFile[c] # loaded[c].podfile
        /\ podsJsonDisk = loaded[c].podsjson
        /\ podfileDisk = loaded[c].podfile

----------------------------------------------------------------------------
(* Calls in flight at once *)

\* c has loaded the two files and its pod install, if any, has not ended
Reconciling(c) == pc[c] \in SyncStages \cup {"installing"}

\* C20 as claimed: calls are processed one at a time: no call loads,
\* changes, writes or invokes pod install while another call has loaded
\* the files and its pod install has not completed.
C20_OneAtATime ==
    \A c, d \in Slots :
        (c # d /\ Reconciling(c)) => ~Reconciling(d)

\* C20: from the load of the two files to the invocation of pod install a
\* call runs without a step of any other call in between, and the files
\* change only by its writes; calls may be in flight at once otherwise.
C20_SynchronousSection ==
    /\ [](\A c, d \in Slots :
            (c # d /\ pc[c] \in SyncStages) => pc[d] \notin SyncStages)
    /\ [][\A c \in Slots :
            pc[c] \in SyncStages
                => /\ \A d \in Slots \ {c} :
                         /\ pc'[d] = pc[d]
                         /\ call'[d] = call[d]
                         /\ log'[d] = log[d]
                         /\ podsjsonFile'[d] = podsjsonFile[d]
                         /\ podfileFile'[d] = podfileFile[d]
                   /\ podsJsonDisk' \in {podsJsonDisk, podsjsonFile[c]}
                   /\ podfileDisk' \in {podfileDisk, podfileFile[c]}]_vars

\* C20 witness: a call is processing its units, having loaded the files
\* that another call wrote, while the pod install of that call is running
C20_Witness ==
    \E c, d \in Slots :
        /\ c # d
        /\ pc[c] = "installing"
        /\ pc[d] = "processing"
        /\ units[d] # <<>>
        /\ loaded[d].podsjson = podsjsonFile[c]
        /\ loaded[d].podsjson # EmptyPodsJson

----------------------------------------------------------------------------
(* pods.json written and read back *)

\* the payload of an entry: its fields that have a value, the count apart
PayloadOf(entry) ==
    [f \in {g \in DOMAIN entry \ {"count"} :
               g \in podSpecFields => entry[g] # Undefined}
        |-> entry[f]]

\* the (kind, key, payload, count) tuples of a ledger
Tuples(pj) ==
    UNION {{<<kind, key, PayloadOf(pj[kind][key]), pj[kind][key]["count"]>> :
               key \in DOMAIN pj[kind]} : kind \in Kinds}

----------------------------------------------------------------------------
(* The steps before the pods *)

\* the plugin manager, or a Swift package or bridging header callback,
\* has failed
EarlierStepFailed(c) ==
    /\ Len(log[c]) >= 1
    /\ log[c][1].ev = "reject"
    /\ log[c][1].kind \in {"pluginManager", "nativeSteps"}

\* both files are what they were when the call was made
FilesAsAtStart(c) ==
    /\ podsJsonDisk = previous[c].podsjson
    /\ podfileDisk = previous[c].podfile

\* C22: addPlugin and removePlugin come to the pods only when the plugin
\* manager and the Swift package and bridging header callbacks have
\* succeeded: until then, and for good when one of them fails, neither
\* file is read or written and pod install is not invoked; the promise
\* rejects only when a step has failed, and fulfils (with true) otherwise,
\* also for a plugin that is null or has no pods.
C22_PodsAfterEarlierSteps ==
    \A c \in Slots :
        /\ pc[c] \in {"pluginManager", "nativeSteps", "podSpecs"}
              => (log[c] = <<>> /\ FilesAsAtStart(c))
        /\ EarlierStepFailed(c)
              => /\ pc[c] = "rejected"
                 /\ Len(log[c]) = 1
                 /\ FilesAsAtStart(c)
                 /\ podsjsonFile[c] = EmptyPodsJson
                 /\ podfileFile[c] = EmptyPodfile
        /\ pc[c] = "rejected"
              => (HasEvent(log[c], "reject") \/ HasEvent(log[c], "throw"))
        /\ pc[c] = "fulfilled"
              => (~HasEvent(log[c], "reject") /\ ~HasEvent(log[c], "throw"))
        /\ (pc[c] \in {"fulfilled", "rejected"}
               /\ ~EarlierStepFailed(c)
               /\ (call[c].plugin.isNull \/ call[c].plugin.podSpecs = <<>>))
              => /\ pc[c] = "fulfilled"
                 /\ \A i \in 1..Len(log[c]) : log[c][i].ev = "load"
                 /\ FilesAsAtStart(c)

\* C22 witness: after an install that wrote both files and a call for the
\* null plugin that was fulfilled, a call has failed in a callback before
\* the pods and the files are as they were
C22_Witness ==
    \E c \in Slots :
        /\ EarlierStepFailed(c)
        /\ log[c][1].kind = "nativeSteps"
        /\ previous[c].id = "null"
        /\ previous[c].outcome = "fulfilled"
        /\ podsJsonDisk # EmptyPodsJson
        /\ podfileDisk # EmptyPodfile
        /\ HasPodSpecs(c)

----------------------------------------------------------------------------
(* The version probes *)

ProbeNames ==
    {"get_apple_ios_version", "get_apple_osx_version",
     "get_apple_xcode_version", "get_ios_deploy_version",
     "get_cocoapods_version"}

\* the spawned command ran and exited with status 0
RanWell(r) == ~r.throws /\ r.error = NoError /\ r.status = 0

\* some line of the output names the SDK
NamesSdk(stdout, sdkType) ==
    \E i \in 1..Len(stdout) : MatchesSdk(stdout[i], sdkType)

\* a line of the output names the SDK with a number that has no dot
NamesSdkWithoutMinor(stdout, sdkType) ==
    \E i \in 1..Len(stdout) :
        MatchesSdk(stdout[i], sdkType) /\ VersionStarts(stdout[i]) = {}

\* the probe finds a version in the output
Parsable(fn, stdout) ==
    CASE fn = "get_apple_ios_version" ->
             NamesSdk(stdout, "iOS") /\ ~NamesSdkWithoutMinor(stdout, "iOS")
      [] fn = "get_apple_osx_version" ->
             NamesSdk(stdout, "macOS") /\ ~NamesSdkWithoutMinor(stdout, "macOS")
      [] fn = "get_apple_xcode_version" -> XcodeLines(stdout) # {}
      [] OTHER -> TRUE

\* C23: a version probe never throws, it settles a promise: the promise is
\* rejected with the message of the exception when spawning throws, with
\* the message of the error when the result carries one, with the standard
\* error text when the exit status is not 0, and with an error of the probe
\* when the output of a command that exited with 0 has no version the probe
\* can find; it is fulfilled when such an output has one.
C23_ProbesRejectNeverThrow ==
    versions.fn \in ProbeNames =>
        LET r == versions.given
            o == versions.outcome
        IN  /\ o.kind \in {"fulfilled", "rejected"}
            /\ Len(versions.spawns) = 1
            /\ r.throws =>
                   o.kind = "rejected" /\ o.error.message = r.message
            /\ (~r.throws /\ r.error # NoError) =>
                   o.kind = "rejected" /\ o.error.message = r.error
            /\ (~r.throws /\ r.error = NoError /\ r.status # 0) =>
                   o.kind = "rejected" /\ o.error.message = r.stderr
            /\ (RanWell(r) /\ ~Parsable(versions.fn, r.stdout)) =>
                   /\ o.kind = "rejected"
                   /\ o.error.message
                          \in {"Could not determine version from output",
                               "Cannot read properties of null"}
                   /\ o.error.type = "CordovaError" =>
                          o.error.about \in {"iOS", "macOS", "Xcode"}
            /\ (RanWell(r) /\ Parsable(versions.fn, r.stdout)) =>
                   o.kind = "fulfilled"

\* the SDK probe was given an output that names no iOS SDK
C23_Witness ==
    /\ versions.fn = "get_apple_ios_version"
    /\ RanWell(versions.given)
    /\ versions.given.stdout = NotAVersionOutput
    /\ versions.outcome.kind = "rejected"
    /\ versions.outcome.error.about = "iOS"

----------------------------------------------------------------------------
(* get_tool_version *)

\* C24: get_tool_version answers 'xcodebuild', 'ios-deploy' and 'pod' with
\* the outcome of the probe of that tool, which spawns that command once;
\* for any other name it spawns nothing and rejects with the error
\* '<name> is not valid tool name'.
C24_ToolVersionDispatch ==
    versions.fn = "get_tool_version" =>
        LET toolName == versions.args[1]
            r == versions.given
        IN  /\ toolName = "xcodebuild" =>
                /\ versions.spawns = Spawned("xcodebuild", <<"-version">>)
                /\ versions.outcome = get_apple_xcode_version(r).outcome
            /\ toolName = "ios-deploy" =>
                /\ versions.spawns = Spawned("ios-deploy", <<"--version">>)
                /\ versions.outcome = get_ios_deploy_version(r).outcome
            /\ toolName = "pod" =>
                /\ versions.spawns = Spawned("pod", <<"--version">>)
                /\ versions.outcome = get_cocoapods_version(r).outcome
            /\ toolName \notin {"xcodebuild", "ios-deploy", "pod"} =>
                /\ versions.spawns = <<>>
                /\ versions.outcome.kind = "rejected"
                /\ versions.outcome.error.message = "is not valid tool name"
                /\ versions.outcome.error.about = toolName

\* a name that is no tool was asked for
C24_Witness ==
    /\ versions.fn = "get_tool_version"
    /\ versions.args = <<"unknown">>
    /\ versions.spawns = <<>>
    /\ versions.outcome.kind = "rejected"

----------------------------------------------------------------------------
(* compareVersions *)

\* the version a string stands for: itself when it is semver, else coerced
Coerced(v) == IF SemverParse(v).valid THEN SemverParse(v) ELSE SemverCoerce(v)

CannotBeCoerced(v) == ~Coerced(v).valid

MainOf(x) == <<x.major, x.minor, x.patch>>

\* precedence of major.minor.patch
MainLower(x, y) ==
    \/ x.major < y.major
    \/ x.major = y.major /\ x.minor < y.minor
    \/ x.major = y.major /\ x.minor = y.minor /\ x.patch < y.patch

\* C25: compareVersions returns -1, 0 or 1 by semver precedence of the
\* coerced arguments: negative when the first has the lower
\* major.minor.patch, positive when the higher, 0 when both are the same
\* release; a semver pre-release is below its release; a string that is not
\* semver counts as its major.minor.patch with no pre-release; swapping the
\* arguments negates the result; an argument that cannot be coerced raises
\* TypeError 'Invalid Version' naming it.
C25_ComparesBySemver ==
    versions.fn = "compareVersions" =>
        LET a == versions.args[1]
            b == versions.args[2]
            o == versions.outcome
            x == Coerced(a)
            y == Coerced(b)
        IN  /\ (CannotBeCoerced(a) \/ CannotBeCoerced(b)) =>
                /\ o.kind = "thrown"
                /\ o.type = "TypeError"
                /\ o.message = "Invalid Version: "
                /\ o.version = IF CannotBeCoerced(a) THEN a ELSE b
            /\ (~CannotBeCoerced(a) /\ ~CannotBeCoerced(b)) =>
                /\ o.kind = "returned"
                /\ o.value \in {-1, 0, 1}
                /\ MainLower(x, y) => o.value < 0
                /\ MainLower(y, x) => o.value > 0
                /\ (MainOf(x) = MainOf(y) /\ x.prerelease = <<>>
                        /\ y.prerelease = <<>>) => o.value = 0
                /\ (MainOf(x) = MainOf(y) /\ x.prerelease # <<>>
                        /\ y.prerelease = <<>>) => o.value < 0
                /\ a = b => o.value = 0
                /\ ~SemverParse(a).valid => x.prerelease = <<>>
                /\ ~SemverParse(b).valid => y.prerelease = <<>>
                /\ compareVersions(b, a).kind = "returned"
                /\ o.value = -(compareVersions(b, a).value)

\* '10.1-beta.1', which is not semver, was compared with '10.1'
C25_Witness ==
    /\ versions.fn = "compareVersions"
    /\ versions.args = << <<"1", "0", ".", "1", "-", "b", "e", "t", "a", ".", "1">>,
                         <<"1", "0", ".", "1">> >>
    /\ versions.outcome.kind = "returned"
    /\ versions.outcome.value = 0

----------------------------------------------------------------------------
(* The installer and the content of the Podfile *)

\* the step settles the call of slot c
Settles(c) == pc[c] \notin Settled /\ pc'[c] \in {"fulfilled", "rejected"}

----------------------------------------------------------------------------
(* What the conflict warning says *)

\* the version pins that appear in the text of the 'warn' event of Api.js
\* 402: the text is formatted from plugin.id, podJson.name and val.spec
PinsNamed(w) == {w.installed}

\* C27: the warning for a library key that is registered with another
\* payload names the installing plugin and both version pins, the
\* registered one and the one the plugin asks for.
C27_WarningNamesBothPayloads ==
    \A c \in Slots : \A i \in 1..Len(log[c]) :
        (log[c][i].ev = "warn"
            /\ log[c][i].requested # log[c][i].registered)
            => /\ log[c][i].plugin = call[c].plugin.id
               /\ Prop(log[c][i].registered, "spec") \in PinsNamed(log[c][i])
               /\ Prop(log[c][i].requested, "spec") \in PinsNamed(log[c][i])

----------------------------------------------------------------------------
(* Podfile entries shared by several pods.json keys *)

\* a source key of pods.json holds the URL
UrlRegistered(pj, url) ==
    \E k \in DOMAIN pj["sources"] :
        pj["sources"][k]["source"] = url /\ pj["sources"][k]["count"] > 0

\* a library key of pods.json holds the name
NameRegistered(pj, name) ==
    \E k \in DOMAIN pj["libraries"] :
        /\ "name" \in DOMAIN pj["libraries"][k]
        /\ pj["libraries"][k]["name"] = name
        /\ pj["libraries"][k]["count"] > 0

\* C28: the uninstall of a unit takes no source URL and no library name
\* out of the Podfile that an entry of pods.json with a count above 0
\* still holds after the uninstall.
C28_SharedEntriesStay ==
    [][\A c \in Slots :
          (call[c].op = "remove" /\ pc[c] = "processing"
              /\ units'[c] # units[c])
              => /\ \A url \in podfileFile[c].sources :
                       UrlRegistered(podsjsonFile'[c], url)
                           => url \in podfileFile'[c].sources
                 /\ \A name \in DOMAIN podfileFile[c].pods :
                       NameRegistered(podsjsonFile'[c], name)
                           => name \in DOMAIN podfileFile'[c].pods]_vars

----------------------------------------------------------------------------
(* Calls in flight at once and the counts they leave *)

\* the calls made so far: those whose slot was taken again, then those
\* that still hold a slot
CallsSoFar ==
    LET held == {c \in Slots : pc[c] # "idle"}
        RECURSIVE InSlots(_)
        InSlots(S) ==
            IF S = {} THEN <<>>
            ELSE LET c == CHOOSE x \in S : \A y \in S : x <= y
                 IN  <<CallMade(c)>> \o InSlots(S \ {c})
    IN  history \o InSlots(held)

RECURSIVE AfterUnits(_, _, _)
\* the loops of addPodSpecs / removePodSpecs run over all their units
AfterUnits(st, req, todo) ==
    IF todo = <<>> THEN st
    ELSE AfterUnits(IF req.op = "add"
                    THEN addUnit(st, req.plugin, Head(todo), req.options)
                    ELSE removeUnit(st, req.plugin, Head(todo), req.options),
                    req, Tail(todo))

RECURSIVE OneAfterTheOther(_, _)
\* pods.json and the Podfile after the calls of a sequence, each begun when
\* the one before it has settled
OneAfterTheOther(st, made) ==
    IF made = <<>> THEN st
    ELSE OneAfterTheOther(
             IF Head(made).ran
             THEN AfterUnits(st, Head(made).call,
                             UnitsOf(Head(made).call.op,
                                     Head(made).call.plugin.podSpecs))
             ELSE st,
             Tail(made))

Orders(n) == {f \in [1..n -> 1..n] : \A i, j \in 1..n : i # j => f[i] # f[j]}

CountsOf(pj) ==
    [kind \in Kinds |-> [key \in DOMAIN pj[kind] |-> pj[kind][key]["count"]]]

\* C29: when the calls that were in flight have all settled, the counts
\* in pods.json are those that the same calls leave when they are made
\* one after the other in some order: no update of a count is lost.
C29_CountsOfSomeSerialOrder ==
    (\A c \in Slots : pc[c] \in Settled)
        => \E f \in Orders(Len(CallsSoFar)) :
              CountsOf(podsJsonDisk)
                  = CountsOf(OneAfterTheOther(
                                 [podsjson |-> EmptyPodsJson,
                                  podfile |-> EmptyPodfile,
                                  log |-> <<>>, threw |-> FALSE],
                                 [i \in 1..Len(CallsSoFar) |->
                                     CallsSoFar[f[i]]]).podsjson)

\* two installs of one plugin were in flight at once: the second began
\* before the first wrote pods.json, loaded what the first wrote, and
\* both have settled with a count of 2
C29_Witness ==
    \E c, d \in Slots :
        /\ c # d
        /\ pc[c] = "fulfilled" /\ pc[d] = "fulfilled"
        /\ call[c].op = "add" /\ call[d].op = "add"
        /\ call[c].plugin.id = call[d].plugin.id
        /\ HasEvent(log[c], "writePodsJson")
        /\ previous[d].podsjson = EmptyPodsJson
        /\ loaded[d].podsjson = podsjsonFile[c]
        /\ loaded[d].podsjson # EmptyPodsJson
        /\ \E key \in DOMAIN podsJsonDisk["libraries"] :
              podsJsonDisk["libraries"][key]["count"] = 2

----------------------------------------------------------------------------
(* A call without pod dependencies *)

\* the plugin of the call is null or brings no unit at all
NoDependencies(req) ==
    \/ req.plugin.isNull
    \/ UnitsOf(req.op, req.plugin.podSpecs) = <<>>

\* C30: a call whose plugin brings no pod dependency writes no Podfile and
\* invokes no installer, and the Podfile stays as it is while the call
\* runs; every call writes the Podfile at most once and invokes the
\* installer at most once, after that write.
C30_EmptySetLeavesPodfile ==
    /\ [](\A c \in Slots :
            /\ NumEvents(log[c], "writePodfile") <= 1
            /\ NumEvents(log[c], "install") <= NumEvents(log[c], "writePodfile")
            /\ (pc[c] # "idle" /\ NoDependencies(call[c]))
                  => /\ ~HasEvent(log[c], "writePodfile")
                     /\ ~HasEvent(log[c], "install"))
    /\ [][\A c \in Slots :
            (pc[c] \notin Settled /\ NoDependencies(call[c]))
                => podfileDisk' = podfileDisk]_vars

\* an uninstall of a plugin without <podspec> was fulfilled on a platform
\* whose Podfile an earlier install had filled
C30_Witness ==
    \E c \in Slots :
        /\ pc[c] = "fulfilled"
        /\ call[c].op = "remove"
        /\ ~call[c].plugin.isNull
        /\ call[c].plugin.podSpecs = <<>>
        /\ previous[c].podfile # EmptyPodfile
        /\ podfileDisk = previous[c].podfile
        /\ HasEvent(log[c], "load")
        /\ ~HasEvent(log[c], "install")

----------------------------------------------------------------------------
(* Declarations that are switched off *)

\* the next step of c visits a declaration
AtDeclaration(c) ==
    /\ pc[c] = "processing"
    /\ units[c] # <<>>
    /\ units'[c] # units[c]
    /\ Head(units[c]).kind = "declarations"

\* C33: a declaration whose value is not the string 'true' changes neither
\* pods.json nor the Podfile and emits nothing, on install and on
\* uninstall alike; a declaration whose value is 'true' is set or
\* incremented on install and decremented or recovered on uninstall, so no
\* uninstall decrements what the install of the same plugin passed over.
C33_OnlyTrueDeclarations ==
    [][\A c \in Slots :
          AtDeclaration(c)
              => IF Head(units[c]).value # "true"
                 THEN /\ podsjsonFile'[c] = podsjsonFile[c]
                      /\ podfileFile'[c] = podfileFile[c]
                      /\ log'[c] = log[c]
                      /\ pc'[c] = "processing"
                 ELSE /\ Len(log'[c]) = Len(log[c]) + 1
                      /\ log'[c][Len(log'[c])].kind = "declarations"
                      /\ log'[c][Len(log'[c])].key
                             = proofDeclaration(Head(units[c]).key)
                      /\ log'[c][Len(log'[c])].ev \in
                             (IF call[c].op = "add" THEN {"set", "increment"}
                              ELSE {"decrement", "recover"})]_vars

\* an uninstall has passed over a declaration that is switched off and
\* decremented the one that is on
C33_Witness ==
    \E c \in Slots :
        /\ call[c].op = "remove"
        /\ pc[c] = "fulfilled"
        /\ \E b \in 1..Len(call[c].plugin.podSpecs) :
              \E i \in 1..Len(call[c].plugin.podSpecs[b]["declarations"]) :
                  /\ call[c].plugin.podSpecs[b]["declarations"][i][2] = "false"
                  /\ \A j \in 1..Len(log[c]) :
                        log[c][j].key
                            # call[c].plugin.podSpecs[b]["declarations"][i][1]
        /\ \E j \in 1..Len(log[c]) :
              log[c][j].ev = "decrement" /\ log[c][j].kind = "declarations"

----------------------------------------------------------------------------
(* The library objects a plugin declares *)

\* the library objects that the blocks of a plugin declare
DeclaredLibraries(plugin) ==
    UNION {{plugin.podSpecs[b]["libraries"][i] :
               i \in 1..Len(plugin.podSpecs[b]["libraries"])} :
           b \in 1..Len(plugin.podSpecs)}

----------------------------------------------------------------------------
(* A <podspec> block without one of its sections *)

\* a block of the plugin lacks a section
LacksSection(plugin) ==
    \E b \in 1..Len(plugin.podSpecs) :
        DOMAIN plugin.podSpecs[b] # {"declarations", "sources", "libraries"}

\* C32: the uninstall of a plugin of which a block lacks a section, and
\* which addPodSpecs accepts, does not fail at that section: it visits the
\* other sections, writes pods.json and is fulfilled unless pod install
\* fails.
C32_UninstallAcceptsWhatInstallAccepts ==
    \A c \in Slots :
        (call[c].op = "remove" /\ LacksSection(call[c].plugin))
            => /\ ~HasEvent(log[c], "throw")
               /\ (pc[c] = "rejected" /\ HasEvent(log[c], "load"))
                     => HasEvent(log[c], "writePodsJson")

====
